---------------------------- MODULE Spec2Model ----------------------------
(***************************************************************************)
(* Model of ApiGetOpenApiDescriptionHandler                                *)
(* (grr_response_server/gui/api_plugins/metadata.py): the handler that     *)
(* renders the OpenAPI description of the GRR API from the router's        *)
(* annotated methods and the protobuf descriptors of their types.          *)
(*                                                                         *)
(* Python values are modelled as follows.                                  *)
(*   str used as a key or a JSON string   a TLA+ string                    *)
(*   str that the code indexes (a URL)    a sequence of 1-character strings*)
(*   dict (insertion ordered)             [obj |-> <<[k |-> key, v |-> v]>>]*)
(*   list                                 [arr |-> <<...>>]                *)
(*   JSON str / bool / int                [str |-> s], [bool |-> b], [int |-> n]*)
(*   str with line breaks                 [lines |-> <<line, ...>>]        *)
(*   None                                 [none |-> TRUE]                  *)
(*   type-like values                     records with a "kind" field      *)
(***************************************************************************)
EXTENDS Integers, Sequences, FiniteSets, TLC

VARIABLES
  router,        \* router.__class__.GetAnnotatedMethods(): ordered methods
  pool,          \* protobuf descriptor pool: full_name -> descriptor
  open_api_obj,  \* self.open_api_obj
  schema_objs,   \* self.schema_objs
  pc,            \* per caller: position inside Handle
  stack,         \* per caller: active _ExtractSchema calls, innermost last
  visiting,      \* per caller: the local `visiting` set of _ExtractSchemas
  roots,         \* per caller: types _ExtractSchemas has still to visit
  prim_stores,   \* per caller: stores _AddPrimitiveTypesSchemas has still to make
  type_names,    \* per caller: names the loop of _SetComponents has still to copy
  schemas_obj,   \* per caller: the local schemas_obj of _SetComponents
  bindings,      \* per caller: (method, binding) pairs _SetEndpoints has to do
  paths_obj,     \* per caller: the local paths_obj of _SetEndpoints
  param_order,   \* per caller: order the set path_params | query_params yields
  reads,         \* per caller: primitive names the current binding has still to read
  seen,          \* per caller: schemas the current binding has read from schema_objs
  calls,         \* history: number of Handle calls started
  builds,        \* history: number of times a caller started to build
  returned,      \* history: what the finished calls returned or raised
  expanded,      \* history: per type name, runs of its Extract*Schema body
  written,       \* history: per type name, stores into schema_objs
  ncalls,        \* history: _ExtractSchema calls made for the current root
  concurrent,    \* deployment: may Handle calls on the instance overlap
  back_edges,    \* history: (message, field) pairs whose _ExtractSchema call found a cycle
  tpl,           \* path functions: the URL template under test
  tplSimple,     \* path functions: result of _SimplifyPath(tpl)
  tplArgs,       \* path functions: result of _GetPathArgsFromPath(tpl)
  tplDone        \* path functions: which of the two have been applied

vars == <<router, pool, open_api_obj, schema_objs, pc, stack, visiting, roots,
          prim_stores, type_names, schemas_obj, bindings, paths_obj,
          param_order, reads, seen, calls, builds, returned, expanded,
          written, ncalls, concurrent, back_edges, tpl, tplSimple, tplArgs,
          tplDone>>

handlerVars == <<router, pool, open_api_obj, schema_objs, pc, stack, visiting,
                 roots, prim_stores, type_names, schemas_obj, bindings,
                 paths_obj, param_order, reads, seen, calls, builds, returned,
                 expanded, written, ncalls, concurrent, back_edges>>

pathVars == <<tpl, tplSimple, tplArgs, tplDone>>

-----------------------------------------------------------------------------
(* Bounds of the model.                                                    *)

MaxMethods == 2     \* methods in a registry
MaxCalls == 2       \* Handle calls on one handler instance
MaxEdges == 2       \* composite-typed fields in a generated type graph
MaxTplLen == 5      \* characters of an exhaustively enumerated URL template
MaxStack == 6       \* cap on nested _ExtractSchema calls the model follows

-----------------------------------------------------------------------------
(* Python values.                                                          *)

None == [none |-> TRUE]
JS(s) == [str |-> s]
JB(b) == [bool |-> b]
JA(seq) == [arr |-> seq]
JO(seq) == [obj |-> seq]
KV(key, val) == [k |-> key, v |-> val]
EmptyDict == JO(<<>>)

IsNone(x) == "none" \in DOMAIN x
IsDict(x) == "obj" \in DOMAIN x

DictKeySeq(d) == [i \in 1..Len(d.obj) |-> d.obj[i].k]
DictKeys(d) == {d.obj[i].k : i \in 1..Len(d.obj)}
DictHas(d, key) == key \in DictKeys(d)
DictGet(d, key) == d.obj[CHOOSE i \in 1..Len(d.obj) : d.obj[i].k = key].v
\* d[key] = val: an existing key keeps its position, a new key goes last.
DictSet(d, key, val) ==
  IF DictHas(d, key)
    THEN JO([i \in 1..Len(d.obj) |->
               IF d.obj[i].k = key THEN KV(key, val) ELSE d.obj[i]])
    ELSE JO(Append(d.obj, KV(key, val)))

RECURSIVE SeqToSet(_)
SeqToSet(s) == IF s = <<>> THEN {} ELSE {Head(s)} \cup SeqToSet(Tail(s))

\* Every order in which iterating a Python set can yield its elements.
Orders(S) ==
  {p \in [1..Cardinality(S) -> S] : \A x \in S : \E i \in DOMAIN p : p[i] = x}

\* "".join(parts) into one TLA+ string.
RECURSIVE Str(_)
Str(chars) == IF chars = <<>> THEN "" ELSE Head(chars) \o Str(Tail(chars))

-----------------------------------------------------------------------------
(* URL templates: _SimplifyPathNode, _SimplifyPath, _GetPathArgsFromPath.  *)

\* s.split(sep) for a one-character separator.
RECURSIVE SplitFrom(_, _, _)
SplitFrom(s, sep, cur) ==
  IF s = <<>> THEN <<cur>>
  ELSE IF Head(s) = sep THEN <<cur>> \o SplitFrom(Tail(s), sep, <<>>)
  ELSE SplitFrom(Tail(s), sep, Append(cur, Head(s)))

Split(s, sep) == SplitFrom(s, sep, <<>>)

\* sep.join(parts)
RECURSIVE Join(_, _)
Join(parts, sep) ==
  IF parts = <<>> THEN <<>>
  ELSE IF Len(parts) = 1 THEN Head(parts)
  ELSE Head(parts) \o <<sep>> \o Join(Tail(parts), sep)

\* s[1:-1]
Slice1m1(s) == SubSeq(s, 2, Len(s) - 1)

\* len(node) > 0 and node[0] == '<' and node[-1] == '>'
IsParamNode(node) == Len(node) > 0 /\ node[1] = "<" /\ node[Len(node)] = ">"

SimplifyPathNode_KeepConverter(node) ==
  IF IsParamNode(node) THEN <<"{">> \o Slice1m1(node) \o <<"}">> ELSE node

_SimplifyPathNode(node) ==
  IF IsParamNode(node)
    THEN LET inner == Slice1m1(node)
             parts == Split(inner, ":")
         IN <<"{">> \o parts[Len(parts)] \o <<"}">>
    ELSE node

_SimplifyPath(path) ==
  LET nodes == Split(path, "/")
      simple_nodes == [i \in 1..Len(nodes) |-> _SimplifyPathNode(nodes[i])]
  IN Join(simple_nodes, "/")

RECURSIVE PathArgsOf(_)
PathArgsOf(nodes) ==
  IF nodes = <<>> THEN <<>>
  ELSE IF IsParamNode(Head(nodes))
    THEN <<Slice1m1(_SimplifyPathNode(Head(nodes)))>> \o PathArgsOf(Tail(nodes))
    ELSE PathArgsOf(Tail(nodes))

_GetPathArgsFromPath(path) == PathArgsOf(Split(path, "/"))

-----------------------------------------------------------------------------
(* Type-like values.  A value t that the code inspects with isinstance,    *)
(* inspect.isclass or issubclass carries the answer in t.kind:             *)
(*   "field"    FieldDescriptor: name, type, message_type, enum_type, label*)
(*   "message"  Descriptor: full_name (its fields are pool[full_name])     *)
(*   "enum"     EnumDescriptor: full_name (its values are pool[full_name]) *)
(*   "class"    a class: name, rdf (subclass of RDFProtoStruct), descriptor*)
(*   "int"      a protobuf type code: code                                 *)
(*   "str"      a string such as "BinaryStream": s                         *)
(*   "none"     None                                                       *)
(* A missing message_type / enum_type / descriptor is the empty string.    *)

TYPE_DOUBLE == 1
TYPE_FLOAT == 2
TYPE_INT64 == 3
TYPE_UINT64 == 4
TYPE_INT32 == 5
TYPE_FIXED64 == 6
TYPE_FIXED32 == 7
TYPE_BOOL == 8
TYPE_STRING == 9
TYPE_BYTES == 12
TYPE_UINT32 == 13
TYPE_SFIXED32 == 15
TYPE_SFIXED64 == 16
TYPE_SINT32 == 17
TYPE_SINT64 == 18

LABEL_OPTIONAL == "LABEL_OPTIONAL"
LABEL_REPEATED == "LABEL_REPEATED"

NoType == [kind |-> "none"]
StrType(s) == [kind |-> "str", s |-> s]
IntType(code) == [kind |-> "int", code |-> code]
RdfClass(name, descriptor) ==
  [kind |-> "class", name |-> name, rdf |-> TRUE, descriptor |-> descriptor]
PlainClass(name) ==
  [kind |-> "class", name |-> name, rdf |-> FALSE, descriptor |-> ""]
DescriptorOf(full_name) == [kind |-> pool[full_name].kind, full_name |-> full_name]

PrimField(name, type, label) ==
  [kind |-> "field", name |-> name, type |-> type, message_type |-> "",
   enum_type |-> "", label |-> label]
MsgField(name, full_name, label) ==
  [kind |-> "field", name |-> name, type |-> 11, message_type |-> full_name,
   enum_type |-> "", label |-> label]
EnumField(name, full_name, label) ==
  [kind |-> "field", name |-> name, type |-> 14, message_type |-> "",
   enum_type |-> full_name, label |-> label]

\* self.proto_primitive_types_names
proto_primitive_types_names ==
  (TYPE_DOUBLE :> "protobuf2.TYPE_DOUBLE") @@
  (TYPE_FLOAT :> "protobuf2.TYPE_FLOAT") @@
  (TYPE_INT64 :> "protobuf2.TYPE_INT64") @@
  (TYPE_UINT64 :> "protobuf2.TYPE_UINT64") @@
  (TYPE_INT32 :> "protobuf2.TYPE_INT32") @@
  (TYPE_FIXED64 :> "protobuf2.TYPE_FIXED64") @@
  (TYPE_FIXED32 :> "protobuf2.TYPE_FIXED32") @@
  (TYPE_BOOL :> "protobuf2.TYPE_BOOL") @@
  (TYPE_STRING :> "protobuf2.TYPE_STRING") @@
  (TYPE_BYTES :> "protobuf2.TYPE_BYTES") @@
  (TYPE_UINT32 :> "protobuf2.TYPE_UINT32") @@
  (TYPE_SFIXED32 :> "protobuf2.TYPE_SFIXED32") @@
  (TYPE_SFIXED64 :> "protobuf2.TYPE_SFIXED64") @@
  (TYPE_SINT32 :> "protobuf2.TYPE_SINT32") @@
  (TYPE_SINT64 :> "protobuf2.TYPE_SINT64")

\* list(self.proto_primitive_types_names.values()), in insertion order
ProtoPrimitiveNameList ==
  <<"protobuf2.TYPE_DOUBLE", "protobuf2.TYPE_FLOAT", "protobuf2.TYPE_INT64",
    "protobuf2.TYPE_UINT64", "protobuf2.TYPE_INT32", "protobuf2.TYPE_FIXED64",
    "protobuf2.TYPE_FIXED32", "protobuf2.TYPE_BOOL", "protobuf2.TYPE_STRING",
    "protobuf2.TYPE_BYTES", "protobuf2.TYPE_UINT32", "protobuf2.TYPE_SFIXED32",
    "protobuf2.TYPE_SFIXED64", "protobuf2.TYPE_SINT32", "protobuf2.TYPE_SINT64">>

primitive_types_names_NoBinaryStream == ProtoPrimitiveNameList

\* self.primitive_types_names
primitive_types_names == ProtoPrimitiveNameList \o <<"BinaryStream">>

IsPrimitiveName(type_name) == type_name \in SeqToSet(primitive_types_names)

_GetTypeName(t) ==
  CASE t.kind = "field" ->
         IF t.message_type # "" THEN t.message_type
         ELSE IF t.enum_type # "" THEN t.enum_type
         ELSE proto_primitive_types_names[t.type]
    [] t.kind = "message" -> t.full_name
    [] t.kind = "enum" -> t.full_name
    [] t.kind = "class" -> t.name
    [] t.kind = "int" -> proto_primitive_types_names[t.code]
    [] t.kind = "str" -> t.s
    [] OTHER -> "None"

\* Python truthiness of a method's args_type / result_type.
Truthy(t) ==
  CASE t.kind = "none" -> FALSE
    [] t.kind = "str" -> t.s # ""
    [] OTHER -> TRUE

\* inspect.isclass(t) and issubclass(t, rdf_structs.RDFProtoStruct)
IsRdfProtoStruct(t) == t.kind = "class" /\ t.rdf

-----------------------------------------------------------------------------
(* Schemas of the primitive types: _AddPrimitiveTypesSchemas.              *)

Schema1(type) == JO(<<KV("type", JS(type))>>)
Schema2(type, format) == JO(<<KV("type", JS(type)), KV("format", JS(format))>>)

\* The stores of _AddPrimitiveTypesSchemas, in the order the code makes them.
PrimitiveStores ==
  <<KV("protobuf2.TYPE_DOUBLE", Schema2("number", "double")),
    KV("protobuf2.TYPE_FLOAT", Schema2("number", "float")),
    KV("protobuf2.TYPE_INT64", Schema2("integer", "int64")),
    KV("protobuf2.TYPE_UINT64", Schema2("integer", "uint64")),
    KV("protobuf2.TYPE_INT32", Schema2("integer", "int32")),
    KV("protobuf2.TYPE_FIXED64", Schema2("integer", "uint64")),
    KV("protobuf2.TYPE_FIXED32", Schema2("integer", "uint32")),
    KV("protobuf2.TYPE_BOOL", Schema1("boolean")),
    KV("protobuf2.TYPE_STRING", Schema1("string")),
    KV("protobuf2.TYPE_BYTES", Schema2("string", "binary")),
    KV("protobuf2.TYPE_UINT32", Schema2("integer", "uint32")),
    KV("protobuf2.TYPE_SFIXED32", Schema2("integer", "int32")),
    KV("protobuf2.TYPE_SFIXED64", Schema2("integer", "int64")),
    KV("protobuf2.TYPE_SINT32", Schema2("integer", "int32")),
    KV("protobuf2.TYPE_SINT64", Schema2("integer", "int64")),
    KV("BinaryStream", Schema2("string", "binary"))>>

RECURSIVE StoreAll(_, _)
StoreAll(d, stores) ==
  IF stores = <<>> THEN d
  ELSE StoreAll(DictSet(d, Head(stores).k, Head(stores).v), Tail(stores))

_AddPrimitiveTypesSchemas(d) == StoreAll(d, PrimitiveStores)

-----------------------------------------------------------------------------
(* Schema or reference of a type name: _GetSchemaOrReferenceObject.        *)

RefObj(type_name) == JO(<<KV("$ref", JS("#/components/schemas/" \o type_name))>>)
ArrayOf(items) == JO(<<KV("type", JS("array")), KV("items", items)>>)

GetSchemaOrReferenceObject_Inline(objs, type_name, is_array) ==
  LET schema_or_ref_obj ==
        IF DictHas(objs, type_name) THEN DictGet(objs, type_name)
        ELSE RefObj(type_name)
  IN IF is_array THEN ArrayOf(schema_or_ref_obj) ELSE schema_or_ref_obj

\* objs is self.schema_objs, which the callers have checked is not None.
_GetSchemaOrReferenceObject(objs, type_name, is_array) ==
  LET schema_or_ref_obj ==
        IF IsPrimitiveName(type_name) THEN DictGet(objs, type_name)
        ELSE RefObj(type_name)
  IN IF is_array THEN ArrayOf(schema_or_ref_obj) ELSE schema_or_ref_obj

FieldSchema(objs, field_d) ==
  _GetSchemaOrReferenceObject(objs, _GetTypeName(field_d),
                              field_d.label = LABEL_REPEATED)

-----------------------------------------------------------------------------
(* Schema of an enum: _ExtractEnumSchema.                                  *)

\* A str with line breaks: "\n".join(lines)
JL(lines) == [lines |-> lines]

\* The lines of the description of an enum, one per value.
EnumLegend(values) ==
  [i \in 1..Len(values) |->
     ToString(values[i].number) \o " == " \o values[i].name]

JI(n) == [int |-> n]

EnumSchema(values) ==
  LET base == <<KV("type", JS("integer")), KV("format", JS("int32"))>>
  IN IF Len(values) > 0
       THEN JO(base \o
               <<KV("enum", JA([i \in 1..Len(values) |-> JI(values[i].number)])),
                 KV("description", JL(EnumLegend(values)))>>)
       ELSE JO(base \o <<KV("enum", JA(<<>>))>>)

-----------------------------------------------------------------------------
(* json.dumps with its default separators, as the sequence of the tokens   *)
(* of the text it writes; a dict is written in insertion order.            *)

\* The text of a str with line breaks: a line break is written as \n.
RECURSIVE EscapeLines(_)
EscapeLines(lines) ==
  IF lines = <<>> THEN ""
  ELSE IF Len(lines) = 1 THEN Head(lines)
  ELSE Head(lines) \o "\\n" \o EscapeLines(Tail(lines))

RECURSIVE Dumps(_)
RECURSIVE DumpItems(_)
RECURSIVE DumpPairs(_)
Dumps(v) ==
  CASE "str" \in DOMAIN v -> <<"\"" \o v.str \o "\"">>
    [] "lines" \in DOMAIN v -> <<"\"" \o EscapeLines(v.lines) \o "\"">>
    [] "bool" \in DOMAIN v -> <<IF v.bool THEN "true" ELSE "false">>
    [] "int" \in DOMAIN v -> <<ToString(v.int)>>
    [] "arr" \in DOMAIN v -> <<"[">> \o DumpItems(v.arr) \o <<"]">>
    [] "obj" \in DOMAIN v -> <<"{">> \o DumpPairs(v.obj) \o <<"}">>
    [] OTHER -> <<"null">>
DumpItems(items) ==
  IF items = <<>> THEN <<>>
  ELSE IF Len(items) = 1 THEN Dumps(Head(items))
  ELSE Dumps(Head(items)) \o <<", ">> \o DumpItems(Tail(items))
DumpPairs(pairs) ==
  IF pairs = <<>> THEN <<>>
  ELSE LET one == <<"\"" \o Head(pairs).k \o "\"", ": ">> \o Dumps(Head(pairs).v)
       IN IF Len(pairs) = 1 THEN one
          ELSE one \o <<", ">> \o DumpPairs(Tail(pairs))

-----------------------------------------------------------------------------
(* Static part of the document: _SetMetadata.                              *)

\* version.Version() of the running build
version_dict == [major |-> 3, minor |-> 4, revision |-> 2, release |-> 1]

\* info_obj, lines 152-170
info_obj ==
  LET contact_obj == JO(<<KV("name", JS("GRR GitHub Repository")),
                          KV("url", JS("https://github.com/google/grr"))>>)
      license_obj == JO(<<KV("name", JS("Apache 2.0")),
                          KV("url", JS("http://www.apache.org/licenses/LICENSE-2.0"))>>)
  IN JO(<<KV("title", JS("GRR Rapid Response API")),
          KV("description", JS("GRR Rapid Response is an incident response "
                               \o "framework focused on remote live forensics.")),
          KV("contact", contact_obj),
          KV("license", license_obj),
          KV("version", JS(ToString(version_dict.major) \o "." \o
                           ToString(version_dict.minor) \o "." \o
                           ToString(version_dict.revision) \o "." \o
                           ToString(version_dict.release)))>>)

\* server_obj, lines 174-176
server_obj ==
  JO(<<KV("url", JS("/")), KV("description", JS("Root path of the GRR API"))>>)

\* doc["servers"].append(server_obj)
AppendServer(doc) ==
  DictSet(doc, "servers", JA(Append(DictGet(doc, "servers").arr, server_obj)))

-----------------------------------------------------------------------------
(* Components: _SetComponents.                                             *)

\* type_names - primitive_types_names
CompositeNames(objs) == DictKeys(objs) \ SeqToSet(primitive_types_names)

\* components_obj
ComponentsObj(schemas) == JO(<<KV("schemas", schemas)>>)

-----
(* Strings of an endpoint: upper(), lower(), replace(), urlparse.quote().  *)

LowerLetters ==
  <<"a", "b", "c", "d", "e", "f", "g", "h", "i", "j", "k", "l", "m",
    "n", "o", "p", "q", "r", "s", "t", "u", "v", "w", "x", "y", "z">>
UpperLetters ==
  <<"A", "B", "C", "D", "E", "F", "G", "H", "I", "J", "K", "L", "M",
    "N", "O", "P", "Q", "R", "S", "T", "U", "V", "W", "X", "Y", "Z">>
Digits == <<"0", "1", "2", "3", "4", "5", "6", "7", "8", "9">>

UpperChar(ch) ==
  IF \E i \in 1..26 : LowerLetters[i] = ch
    THEN UpperLetters[CHOOSE i \in 1..26 : LowerLetters[i] = ch] ELSE ch
LowerChar(ch) ==
  IF \E i \in 1..26 : UpperLetters[i] = ch
    THEN LowerLetters[CHOOSE i \in 1..26 : UpperLetters[i] = ch] ELSE ch
Upper(chars) == [i \in 1..Len(chars) |-> UpperChar(chars[i])]
Lower(chars) == [i \in 1..Len(chars) |-> LowerChar(chars[i])]

Replace(chars, old, new) ==
  [i \in 1..Len(chars) |-> IF chars[i] = old THEN new ELSE chars[i]]

\* urlparse.quote(s): unreserved characters and "/" are kept, the rest is
\* percent-encoded.
QuoteSafe ==
  SeqToSet(LowerLetters) \cup SeqToSet(UpperLetters) \cup SeqToSet(Digits)
    \cup {"_", ".", "-", "~", "/"}
PercentCode ==
  ("<" :> "%3C") @@ (">" :> "%3E") @@ (":" :> "%3A") @@ (" " :> "%20") @@
  ("(" :> "%28") @@ (")" :> "%29") @@ ("{" :> "%7B") @@ ("}" :> "%7D")
Quote(chars) ==
  [i \in 1..Len(chars) |->
     IF chars[i] \in QuoteSafe THEN chars[i] ELSE PercentCode[chars[i]]]

OperationId(http_method, path, name) ==
  LET url_path == Replace(Replace(Replace(Replace(path, "/", "-"), "<", "_"),
                                  ">", "_"), ":", "-")
  IN Str(Quote(http_method \o <<"-">> \o url_path \o <<"-">> \o name))

-----------------------------------------------------------------------------
(* One operation of _SetEndpoints.                                         *)

\* field_descriptors of a method (the caller has checked args_type).
FieldDescriptors(router_method) ==
  IF Truthy(router_method.args_type)
    THEN pool[router_method.args_type.descriptor].fields
    ELSE <<>>

\* Does _SetEndpoints raise TypeError for the method's args_type?
ArgsTypeError(router_method) ==
  /\ Truthy(router_method.args_type)
  /\ ~IsRdfProtoStruct(router_method.args_type)

PathArgSet(path) ==
  LET path_args == _GetPathArgsFromPath(path)
  IN {Str(path_args[i]) : i \in 1..Len(path_args)}

Triage_CaseSensitive(field_d, path_args, http_method) ==
  IF field_d.name \in path_args THEN "path"
  ELSE IF http_method \in {<<"G", "E", "T">>, <<"H", "E", "A", "D">>} THEN "query"
  ELSE "body"

\* The group the triage loop appends field_d to.
Triage(field_d, path_args, http_method) ==
  IF field_d.name \in path_args THEN "path"
  ELSE IF Upper(http_method) \in {<<"G", "E", "T">>, <<"H", "E", "A", "D">>}
    THEN "query"
  ELSE "body"

Params(field_descriptors, path_args, http_method, group) ==
  SelectSeq(field_descriptors,
            LAMBDA field_d : Triage(field_d, path_args, http_method) = group)

\* `order` is the order in which the loop over path_params | query_params
\* yields the fields.
_GetParameters(objs, path_params, query_params, order) ==
  LET parameter_obj(field_d) ==
        LET head == <<KV("name", JS(field_d.name))>>
            place == IF field_d \in SeqToSet(path_params)
                       THEN <<KV("in", JS("path")), KV("required", JB(TRUE))>>
                       ELSE <<KV("in", JS("query"))>>
        IN JO(head \o place \o <<KV("schema", FieldSchema(objs, field_d))>>)
  IN JA([i \in 1..Len(order) |-> parameter_obj(order[i])])

RECURSIVE BodyProperties(_, _, _)
BodyProperties(props, objs, body_params) ==
  IF body_params = <<>> THEN props
  ELSE BodyProperties(DictSet(props, Head(body_params).name,
                              FieldSchema(objs, Head(body_params))),
                      objs, Tail(body_params))

_GetRequestBody(objs, body_params) ==
  LET schema_obj == JO(<<KV("type", JS("object")),
                         KV("properties", BodyProperties(EmptyDict, objs, body_params))>>)
      media_obj == JO(<<KV("schema", schema_obj)>>)
  IN JO(<<KV("content", JO(<<KV("application/json", media_obj)>>))>>)

GetResponseObject200_AlwaysJson(objs, result_type, router_method_name) ==
  IF Truthy(result_type)
    THEN LET result_type_name ==
               IF IsRdfProtoStruct(result_type) THEN result_type.descriptor
               ELSE _GetTypeName(result_type)
             media_obj ==
               JO(<<KV("schema",
                       _GetSchemaOrReferenceObject(objs, result_type_name, FALSE))>>)
         IN JO(<<KV("description",
                    JS("The call to the " \o router_method_name \o
                       " API method succeeded and it returned an instance of "
                       \o result_type_name \o ".")),
                 KV("content", JO(<<KV("application/json", media_obj)>>))>>)
    ELSE JO(<<KV("description",
                 JS("The call to the " \o router_method_name \o
                    " API method succeeded."))>>)

_GetResponseObject200(objs, result_type, router_method_name) ==
  IF Truthy(result_type)
    THEN LET result_type_name ==
               IF IsRdfProtoStruct(result_type) THEN result_type.descriptor
               ELSE _GetTypeName(result_type)
             media_obj ==
               JO(<<KV("schema",
                       _GetSchemaOrReferenceObject(objs, result_type_name, FALSE))>>)
             media_type ==
               IF result_type = StrType("BinaryStream")
                 THEN "application/octet-stream" ELSE "application/json"
         IN JO(<<KV("description",
                    JS("The call to the " \o router_method_name \o
                       " API method succeeded and it returned an instance of "
                       \o result_type_name \o ".")),
                 KV("content", JO(<<KV(media_type, media_obj)>>))>>)
    ELSE JO(<<KV("description",
                 JS("The call to the " \o router_method_name \o
                    " API method succeeded."))>>)

_GetResponseObjectDefault(router_method_name) ==
  JO(<<KV("description",
          JS("The call to the " \o router_method_name \o
             " API method did not succeed."))>>)

\* operation_obj of one (http_method, path) binding of router_method.
OperationObj(objs, router_method, http_method, path, order) ==
  LET router_method_name == Str(router_method.name)
      path_args == PathArgSet(path)
      field_descriptors == FieldDescriptors(router_method)
      path_params == Params(field_descriptors, path_args, http_method, "path")
      query_params == Params(field_descriptors, path_args, http_method, "query")
      body_params == Params(field_descriptors, path_args, http_method, "body")
      head ==
        <<KV("tags", JA(<<JS(IF router_method.category # ""
                               THEN router_method.category ELSE "NoCategory")>>)),
          KV("description", JS(IF router_method.doc # ""
                                 THEN router_method.doc ELSE "No description.")),
          KV("operationId",
             JS(OperationId(http_method, path, router_method.name))),
          KV("parameters", _GetParameters(objs, path_params, query_params, order))>>
      body == IF body_params # <<>>
                THEN <<KV("requestBody", _GetRequestBody(objs, body_params))>>
                ELSE <<>>
      responses_obj ==
        JO(<<KV("200", _GetResponseObject200(objs, router_method.result_type,
                                             router_method_name)),
             KV("default", _GetResponseObjectDefault(router_method_name))>>)
  IN JO(head \o body \o <<KV("responses", responses_obj)>>)

\* The fields the loop of _GetParameters runs over for a binding.
ParameterFields(router_method, http_method, path) ==
  {field_d \in SeqToSet(FieldDescriptors(router_method)) :
     Triage(field_d, PathArgSet(path), http_method) \in {"path", "query"}}

\* paths_obj after the body of the binding loop has run once.
AddOperation(paths, objs, router_method, http_method, path, order) ==
  LET simple_path == Str(_SimplifyPath(path))
      path_obj == IF DictHas(paths, simple_path)
                    THEN DictGet(paths, simple_path) ELSE EmptyDict
      operation_obj == OperationObj(objs, router_method, http_method, path, order)
  IN DictSet(paths, simple_path,
             DictSet(path_obj, Str(Lower(http_method)), operation_obj))

------------------------------------------------------------------------\* The type names for which the body of the binding loop reads
\* self.schema_objs[type_name] (line 412), in the order of the reads: the
\* primitive types of the parameters, of the body fields and of the result.
PrimitiveReads(router_method, http_method, path, order) ==
  LET NamesOf(fields) ==
        SelectSeq([i \in 1..Len(fields) |-> _GetTypeName(fields[i])],
                  IsPrimitiveName)
      body_params == Params(FieldDescriptors(router_method), PathArgSet(path),
                            http_method, "body")
      result_type == router_method.result_type
      result_type_name ==
        IF IsRdfProtoStruct(result_type) THEN result_type.descriptor
        ELSE _GetTypeName(result_type)
  IN NamesOf(order) \o NamesOf(body_params)
       \o (IF Truthy(result_type) /\ IsPrimitiveName(result_type_name)
             THEN <<result_type_name>> ELSE <<>>)

-----
(* Registries and descriptor pools the handler is run on.                  *)

Message(fields) == [kind |-> "message", fields |-> fields, values |-> <<>>]
Enum(values) == [kind |-> "enum", fields |-> <<>>, values |-> values]
Binding(http_method, path) == [http_method |-> http_method, path |-> path]
Method(name, category, doc, http_methods, args_type, result_type) ==
  [name |-> name, category |-> category, doc |-> doc,
   http_methods |-> http_methods, args_type |-> args_type,
   result_type |-> result_type]

\* A pool with a self-referencing message and an enum.
FixedPool ==
  ("grr.Args" :> Message(<<PrimField("client_id", TYPE_STRING, LABEL_OPTIONAL),
                           MsgField("nodes", "grr.Node", LABEL_REPEATED)>>)) @@
  ("grr.Node" :> Message(<<PrimField("size", TYPE_INT64, LABEL_OPTIONAL),
                           MsgField("next", "grr.Node", LABEL_OPTIONAL),
                           EnumField("kind", "grr.Kind", LABEL_OPTIONAL),
                           PrimField("tags", TYPE_STRING, LABEL_REPEATED)>>)) @@
  ("grr.Kind" :> Enum(<<[number |-> 0, name |-> "UNKNOWN"],
                        [number |-> 1, name |-> "FILE"]>>))

ApiArgs == RdfClass("ApiArgs", "grr.Args")
ApiNode == RdfClass("ApiNode", "grr.Node")

ListNodes ==
  Method(<<"L", "i", "s", "t", "N", "o", "d", "e", "s">>, "Clients",
         "Lists the nodes of a client.",
         <<Binding(<<"G", "E", "T">>,
                   <<"/", "c", "/", "<", "c", "l", "i", "e", "n", "t", "_", "i", "d", ">", "/", "n">>)>>,
         ApiArgs, ApiNode)
PutNodes ==
  Method(<<"P", "u", "t", "N", "o", "d", "e", "s">>, "", "",
         <<Binding(<<"P", "O", "S", "T">>,
                   <<"/", "c", "/", "<", "c", "l", "i", "e", "n", "t", "_", "i", "d", ">", "/", "n">>),
           Binding(<<"h", "e", "a", "d">>, <<"/", "n">>)>>,
         ApiArgs, NoType)
GetBlob ==
  Method(<<"G", "e", "t", "B", "l", "o", "b">>, "Files", "Streams a file.",
         <<Binding(<<"G", "E", "T">>,
                   <<"/", "b", "/", "<", "p", "a", "t", "h", ":", "f", "i", "l", "e", "_", "p", "a", "t", "h", ">">>)>>,
         NoType, StrType("BinaryStream"))
GetKind ==
  Method(<<"G", "e", "t", "K", "i", "n", "d">>, "", "Reads a kind.",
         <<Binding(<<"g", "e", "t">>, <<"/", "k">>)>>, NoType,
         [kind |-> "enum", full_name |-> "grr.Kind"])
\* args_type is a class that is no RDFProtoStruct: _ExtractSchema raises.
BadArgs ==
  Method(<<"B", "a", "d", "A", "r", "g", "s">>, "", "",
         <<Binding(<<"G", "E", "T">>, <<"/", "x">>)>>, PlainClass("NotAProto"),
         NoType)
\* args_type is a bare Descriptor: _SetEndpoints raises.
RawArgs ==
  Method(<<"R", "a", "w", "A", "r", "g", "s">>, "", "",
         <<Binding(<<"P", "O", "S", "T">>, <<"/", "y">>)>>,
         [kind |-> "message", full_name |-> "grr.Node"], ApiNode)

FixedMethods == {ListNodes, PutNodes, GetBlob, GetKind, BadArgs, RawArgs}

\* Ordered registries of distinct methods.
Registries(methods, n) ==
  UNION {{r \in [1..k -> methods] : \A i, j \in 1..k : i # j => r[i] # r[j]} :
         k \in 1..n}

FixedScenarios ==
  {[pool |-> FixedPool, router |-> r] : r \in Registries(FixedMethods, MaxMethods)}

\* Type graphs over three messages: every assignment of at most MaxEdges
\* message-typed fields to them, cycles and self-references included.
\* The second field of a message is repeated, the others are optional.
GraphNames == {"A", "B", "C"}
GraphFields(targets) ==
  [i \in 1..Len(targets) |->
     MsgField("f" \o ToString(i), targets[i],
              IF i = 2 THEN LABEL_REPEATED ELSE LABEL_OPTIONAL)]
GraphPool(a, b, c) ==
  ("A" :> Message(GraphFields(a))) @@ ("B" :> Message(GraphFields(b))) @@
  ("C" :> Message(GraphFields(c)))
GraphPools ==
  UNION {{GraphPool(a, b, c) : a \in [1..n[1] -> GraphNames],
                               b \in [1..n[2] -> GraphNames],
                               c \in [1..n[3] -> GraphNames]} :
         n \in {m \in (0..MaxEdges) \X (0..MaxEdges) \X (0..MaxEdges) :
                  m[1] + m[2] + m[3] <= MaxEdges}}

GraphRouter ==
  <<Method(<<"G", "e", "t", "R", "o", "o", "t">>, "", "", <<Binding(<<"G", "E", "T">>, <<"/", "r">>)>>, NoType,
           RdfClass("ApiA", "A"))>>

\* A second method, whose result type is the message B, registered before or
\* after the first: the roots A and B are visited in either order.
GraphOther ==
  <<Method(<<"G", "e", "t", "O", "t", "h", "e", "r">>, "", "", <<Binding(<<"G", "E", "T">>, <<"/", "s">>)>>, NoType,
           RdfClass("ApiB", "B"))>>

GraphRouters == {GraphRouter \o GraphOther, GraphOther \o GraphRouter}

GraphScenarios == {[pool |-> g, router |-> r] : g \in GraphPools, r \in GraphRouters}

\* Registries on which overlapping calls are explored.
ConcScenarios ==
  {[pool |-> FixedPool, router |-> <<m>>] : m \in {GetBlob, GetKind, BadArgs, RawArgs}}

\* A registry on which every step of the build succeeds.
WellTyped(r) ==
  \A i \in 1..Len(r) :
    /\ Truthy(r[i].args_type) => IsRdfProtoStruct(r[i].args_type)
    /\ Truthy(r[i].result_type) =>
         \/ IsRdfProtoStruct(r[i].result_type)
         \/ r[i].result_type.kind \in {"message", "enum"}
         \/ r[i].result_type = StrType("BinaryStream")

-----------------------------------------------------------------------------
(* The loop of _ExtractSchemas and the outcome of one _ExtractSchema call. *)

\* What _ExtractSchemas passes to _ExtractSchema for a declared type.
RootOf(type) ==
  IF IsRdfProtoStruct(type) THEN DescriptorOf(type.descriptor) ELSE type

RECURSIVE RootsOf_ArgsOnly(_)
RootsOf_ArgsOnly(router_methods) ==
  IF router_methods = <<>> THEN <<>>
  ELSE LET m == Head(router_methods)
           a == IF Truthy(m.args_type) THEN <<RootOf(m.args_type)>> ELSE <<>>
       IN a \o RootsOf_ArgsOnly(Tail(router_methods))

RECURSIVE RootsOf(_)
RootsOf(router_methods) ==
  IF router_methods = <<>> THEN <<>>
  ELSE LET m == Head(router_methods)
           a == IF Truthy(m.args_type) THEN <<RootOf(m.args_type)>> ELSE <<>>
           r == IF Truthy(m.result_type) THEN <<RootOf(m.result_type)>> ELSE <<>>
       IN a \o r \o RootsOf(Tail(router_methods))

ExtractSchema_NoCycleCheck(t, objs, vis) ==
  IF t.kind = "none" THEN "ValueError"
  ELSE IF DictHas(objs, _GetTypeName(t)) THEN "cached"
  ELSE IF t.kind = "message" THEN "message"
  ELSE IF t.kind = "enum" THEN "enum"
  ELSE "TypeError"

ExtractSchema_NoCache(t, objs, vis) ==
  IF t.kind = "none" THEN "ValueError"
  ELSE IF IsPrimitiveName(_GetTypeName(t)) THEN "cached"
  ELSE IF _GetTypeName(t) \in vis THEN "cycle"
  ELSE IF t.kind = "message" THEN "message"
  ELSE IF t.kind = "enum" THEN "enum"
  ELSE "TypeError"

\* The branch _ExtractSchema(t, visiting) takes, self.schema_objs being objs.
_ExtractSchema(t, objs, vis) ==
  IF t.kind = "none" THEN "ValueError"
  ELSE IF DictHas(objs, _GetTypeName(t)) THEN "cached"
  ELSE IF _GetTypeName(t) \in vis THEN "cycle"
  ELSE IF t.kind = "message" THEN "message"
  ELSE IF t.kind = "enum" THEN "enum"
  ELSE "TypeError"

\* An activation of _ExtractSchema; from phase "fields" on it is inside
\* _ExtractMessageSchema, about to handle field i of the message.
Frame(t) ==
  [t |-> t, t_name |-> _GetTypeName(t), phase |-> "enter", i |-> 0,
   awaiting |-> FALSE, schema_obj |-> EmptyDict]

\* The bindings _SetEndpoints walks, in order: method index, binding index.
RECURSIVE BindingsFrom(_, _)
BindingsFrom(router_methods, m) ==
  IF m > Len(router_methods) THEN <<>>
  ELSE [b \in 1..Len(router_methods[m].http_methods) |-> [m |-> m, b |-> b]]
         \o BindingsFrom(router_methods, m + 1)

AllBindings(router_methods) == BindingsFrom(router_methods, 1)

-----------------------------------------------------------------------------
(* State of the handler and of its callers.                                *)

Callers == {1, 2}

\* What a call left its caller with: result.open_api_description, or an
\* exception; doc is the object that json.dumps was given.
Returned(c, doc) ==
  [caller |-> c, ok |-> TRUE, open_api_description |-> Dumps(doc), doc |-> doc,
   exc |-> ""]
Raised(c, exc) ==
  [caller |-> c, ok |-> FALSE, open_api_description |-> <<>>, doc |-> None,
   exc |-> exc]

Top(c) == stack[c][Len(stack[c])]
Pop(c) == SubSeq(stack[c], 1, Len(stack[c]) - 1)
ReplaceTop(c, frame) == [stack[c] EXCEPT ![Len(stack[c])] = frame]
ZeroCount == [n \in DOMAIN pool |-> 0]

RECURSIVE SetToSeq(_)
SetToSeq(S) ==
  IF S = {} THEN <<>>
  ELSE LET x == CHOOSE n \in S : TRUE IN <<x>> \o SetToSeq(S \ {x})

PrimitiveStoreNames == [i \in 1..Len(PrimitiveStores) |-> PrimitiveStores[i].k]

\* self.schema_objs is tested for membership, indexed, and turned into the
\* set of its keys (line 388), never iterated: the order of its keys cannot
\* be observed, and the model keeps them in one fixed order.
\* self.schema_objs[key] = val
CatalogSet(objs, key, val) ==
  LET keys == SelectSeq(PrimitiveStoreNames \o SetToSeq(DOMAIN pool),
                        LAMBDA k : k = key \/ DictHas(objs, k))
  IN JO([i \in 1..Len(keys) |->
           KV(keys[i], IF keys[i] = key THEN val ELSE DictGet(objs, keys[i]))])

\* __init__ on the given router, before any call.
InitHandler(scenario, overlapping) ==
  /\ router = scenario.router
  /\ pool = scenario.pool
  /\ concurrent = overlapping
  /\ open_api_obj = None
  /\ schema_objs = None
  /\ pc = [c \in Callers |-> "idle"]
  /\ stack = [c \in Callers |-> <<>>]
  /\ visiting = [c \in Callers |-> {}]
  /\ roots = [c \in Callers |-> <<>>]
  /\ prim_stores = [c \in Callers |-> <<>>]
  /\ type_names = [c \in Callers |-> <<>>]
  /\ schemas_obj = [c \in Callers |-> EmptyDict]
  /\ bindings = [c \in Callers |-> <<>>]
  /\ paths_obj = [c \in Callers |-> EmptyDict]
  /\ param_order = [c \in Callers |-> <<>>]
  /\ reads = [c \in Callers |-> <<>>]
  /\ seen = [c \in Callers |-> EmptyDict]
  /\ calls = 0
  /\ builds = 0
  /\ returned = <<>>
  /\ expanded = [n \in DOMAIN scenario.pool |-> 0]
  /\ written = [n \in DOMAIN scenario.pool |-> 0]
  /\ ncalls = 0
  /\ back_edges = {}

NoTemplate ==
  /\ tpl = <<>>
  /\ tplSimple = <<>>
  /\ tplArgs = <<>>
  /\ tplDone = {}

Init ==
  /\ \E scenario \in FixedScenarios \cup GraphScenarios :
       InitHandler(scenario, FALSE)
  /\ NoTemplate

InitConc ==
  /\ \E scenario \in ConcScenarios : InitHandler(scenario, TRUE)
  /\ NoTemplate

-----------------------------------------------------------------------------
(* Handle.  An action is one access to self.open_api_obj or to              *)
(* self.schema_objs, with the computation on locals that follows it: the    *)
(* code takes no lock, and overlapping calls interleave between accesses.   *)

\* An exception leaves Handle: the frames and locals of the call are gone.
Raise(c, exc) ==
  /\ pc' = [pc EXCEPT ![c] = "raised"]
  /\ returned' = Append(returned, Raised(c, exc))
  /\ stack' = [stack EXCEPT ![c] = <<>>]
  /\ visiting' = [visiting EXCEPT ![c] = {}]
  /\ roots' = [roots EXCEPT ![c] = <<>>]
  /\ prim_stores' = [prim_stores EXCEPT ![c] = <<>>]
  /\ type_names' = [type_names EXCEPT ![c] = <<>>]
  /\ schemas_obj' = [schemas_obj EXCEPT ![c] = EmptyDict]
  /\ bindings' = [bindings EXCEPT ![c] = <<>>]
  /\ paths_obj' = [paths_obj EXCEPT ![c] = EmptyDict]
  /\ param_order' = [param_order EXCEPT ![c] = <<>>]
  /\ reads' = [reads EXCEPT ![c] = <<>>]
  /\ seen' = [seen EXCEPT ![c] = EmptyDict]

\* A caller enters Handle.  Without overlapping calls one thread makes them
\* all, each after the previous one has left Handle.
HandleCall(c) ==
  /\ pc[c] \in {"idle", "done", "raised"}
  /\ calls < MaxCalls
  /\ concurrent \/ c = 1
  /\ pc' = [pc EXCEPT ![c] = "check"]
  /\ calls' = calls + 1
  /\ UNCHANGED <<router, pool, open_api_obj, schema_objs, stack, visiting,
                 roots, prim_stores, type_names, schemas_obj, bindings,
                 paths_obj, param_order, reads, seen, builds, returned,
                 expanded, written, ncalls, concurrent, back_edges, pathVars>>

HasCachedDocument_Never(obj) == FALSE

\* self.open_api_obj is not None
HasCachedDocument(obj) == ~IsNone(obj)

\* Line 594: the test finds a document.
HandleHit(c) ==
  /\ pc[c] = "check"
  /\ HasCachedDocument(open_api_obj)
  /\ pc' = [pc EXCEPT ![c] = "cached"]
  /\ UNCHANGED <<router, pool, open_api_obj, schema_objs, stack, visiting,
                 roots, prim_stores, type_names, schemas_obj, bindings,
                 paths_obj, param_order, reads, seen, calls, builds, returned,
                 expanded, written, ncalls, concurrent, back_edges, pathVars>>

\* Lines 595-596: self.open_api_obj is serialized and returned.
HandleCached(c) ==
  /\ pc[c] = "cached"
  /\ pc' = [pc EXCEPT ![c] = "done"]
  /\ returned' = Append(returned, Returned(c, open_api_obj))
  /\ UNCHANGED <<router, pool, open_api_obj, schema_objs, stack, visiting,
                 roots, prim_stores, type_names, schemas_obj, bindings,
                 paths_obj, param_order, reads, seen, calls, builds, expanded,
                 written, ncalls, concurrent, back_edges, pathVars>>

\* Line 594: the test finds None.
HandleMiss(c) ==
  /\ pc[c] = "check"
  /\ ~HasCachedDocument(open_api_obj)
  /\ pc' = [pc EXCEPT ![c] = "reset"]
  /\ UNCHANGED <<router, pool, open_api_obj, schema_objs, stack, visiting,
                 roots, prim_stores, type_names, schemas_obj, bindings,
                 paths_obj, param_order, reads, seen, calls, builds, returned,
                 expanded, written, ncalls, concurrent, back_edges, pathVars>>

\* self.open_api_obj = dict()
HandleReset(c) ==
  /\ pc[c] = "reset"
  /\ open_api_obj' = EmptyDict
  /\ builds' = builds + 1
  /\ pc' = [pc EXCEPT ![c] = "SetMetadata"]
  /\ UNCHANGED <<router, pool, schema_objs, stack, visiting, roots,
                 prim_stores, type_names, schemas_obj, bindings, paths_obj,
                 param_order, reads, seen, calls, returned, expanded, written,
                 ncalls, concurrent, back_edges, pathVars>>

\* self.open_api_obj["openapi"] = oas_version
SetMetadataOpenapi(c) ==
  /\ pc[c] = "SetMetadata"
  /\ open_api_obj' = DictSet(open_api_obj, "openapi", JS("3.0.3"))
  /\ pc' = [pc EXCEPT ![c] = "info"]
  /\ UNCHANGED <<router, pool, schema_objs, stack, visiting, roots,
                 prim_stores, type_names, schemas_obj, bindings, paths_obj,
                 param_order, reads, seen, calls, builds, returned, expanded,
                 written, ncalls, concurrent, back_edges, pathVars>>

\* self.open_api_obj["info"] = info_obj
SetMetadataInfo(c) ==
  /\ pc[c] = "info"
  /\ open_api_obj' = DictSet(open_api_obj, "info", info_obj)
  /\ pc' = [pc EXCEPT ![c] = "servers"]
  /\ UNCHANGED <<router, pool, schema_objs, stack, visiting, roots,
                 prim_stores, type_names, schemas_obj, bindings, paths_obj,
                 param_order, reads, seen, calls, builds, returned, expanded,
                 written, ncalls, concurrent, back_edges, pathVars>>

\* self.open_api_obj["servers"] = []
SetMetadataServers(c) ==
  /\ pc[c] = "servers"
  /\ open_api_obj' = DictSet(open_api_obj, "servers", JA(<<>>))
  /\ pc' = [pc EXCEPT ![c] = "server"]
  /\ UNCHANGED <<router, pool, schema_objs, stack, visiting, roots,
                 prim_stores, type_names, schemas_obj, bindings, paths_obj,
                 param_order, reads, seen, calls, builds, returned, expanded,
                 written, ncalls, concurrent, back_edges, pathVars>>

\* self.open_api_obj["servers"].append(server_obj): the list of the document
\* that self.open_api_obj names now; KeyError if it has no "servers".
SetMetadataServer(c) ==
  /\ pc[c] = "server"
  /\ IF DictHas(open_api_obj, "servers")
       THEN /\ open_api_obj' = AppendServer(open_api_obj)
            /\ pc' = [pc EXCEPT ![c] = "ExtractSchemas"]
            /\ UNCHANGED <<router, pool, schema_objs, stack, visiting, roots,
                           prim_stores, type_names, schemas_obj, bindings,
                           paths_obj, param_order, reads, seen, calls, builds,
                           returned, expanded, written, ncalls, concurrent,
                           back_edges, pathVars>>
       ELSE /\ Raise(c, "KeyError")
            /\ UNCHANGED <<router, pool, open_api_obj, schema_objs, calls,
                           builds, expanded, written, ncalls, concurrent,
                           back_edges, pathVars>>

\* Line 358: self.schema_objs = dict()
ExtractSchemasBegin(c) ==
  /\ pc[c] = "ExtractSchemas"
  /\ schema_objs' = EmptyDict
  /\ prim_stores' = [prim_stores EXCEPT ![c] = PrimitiveStores]
  /\ expanded' = ZeroCount
  /\ written' = ZeroCount
  /\ ncalls' = 0
  /\ back_edges' = {}
  /\ pc' = [pc EXCEPT ![c] = "primitives"]
  /\ UNCHANGED <<router, pool, open_api_obj, stack, visiting, roots,
                 type_names, schemas_obj, bindings, paths_obj, param_order,
                 reads, seen, calls, builds, returned, concurrent, pathVars>>

\* One store self.schema_objs[name] = schema_obj of _AddPrimitiveTypesSchemas.
AddPrimitiveTypeSchema(c) ==
  /\ pc[c] = "primitives"
  /\ prim_stores[c] # <<>>
  /\ schema_objs' = CatalogSet(schema_objs, Head(prim_stores[c]).k,
                            Head(prim_stores[c]).v)
  /\ prim_stores' = [prim_stores EXCEPT ![c] = Tail(@)]
  /\ UNCHANGED <<router, pool, open_api_obj, pc, stack, visiting, roots,
                 type_names, schemas_obj, bindings, paths_obj, param_order,
                 reads, seen, calls, builds, returned, expanded, written,
                 ncalls, concurrent, back_edges, pathVars>>

\* Lines 361-362: visiting = set(); the loop over the router's methods begins.
ExtractSchemasLoop(c) ==
  /\ pc[c] = "primitives"
  /\ prim_stores[c] = <<>>
  /\ visiting' = [visiting EXCEPT ![c] = {}]
  /\ roots' = [roots EXCEPT ![c] = RootsOf(router)]
  /\ pc' = [pc EXCEPT ![c] = "extract"]
  /\ UNCHANGED <<router, pool, open_api_obj, schema_objs, stack, prim_stores,
                 type_names, schemas_obj, bindings, paths_obj, param_order,
                 reads, seen, calls, builds, returned, expanded, written,
                 ncalls, concurrent, back_edges, pathVars>>

\* The loop calls _ExtractSchema on the next declared type.
ExtractNextRoot(c) ==
  /\ pc[c] = "extract"
  /\ stack[c] = <<>>
  /\ roots[c] # <<>>
  /\ stack' = [stack EXCEPT ![c] = <<Frame(Head(roots[c]))>>]
  /\ roots' = [roots EXCEPT ![c] = Tail(roots[c])]
  /\ ncalls' = 1
  /\ UNCHANGED <<router, pool, open_api_obj, schema_objs, pc, visiting,
                 prim_stores, type_names, schemas_obj, bindings, paths_obj,
                 param_order, reads, seen, calls, builds, returned, expanded,
                 written, concurrent, back_edges, pathVars>>

ExtractSchemasEnd(c) ==
  /\ pc[c] = "extract"
  /\ stack[c] = <<>>
  /\ roots[c] = <<>>
  /\ pc' = [pc EXCEPT ![c] = "SetComponents"]
  /\ UNCHANGED <<router, pool, open_api_obj, schema_objs, stack, visiting,
                 roots, prim_stores, type_names, schemas_obj, bindings,
                 paths_obj, param_order, reads, seen, calls, builds, returned,
                 expanded, written, ncalls, concurrent, back_edges, pathVars>>

Entering(c) ==
  /\ pc[c] = "extract"
  /\ stack[c] # <<>>
  /\ Top(c).phase = "enter"

InMessage(c) ==
  /\ pc[c] = "extract"
  /\ stack[c] # <<>>
  /\ Top(c).phase = "fields"

Outcome(c) == _ExtractSchema(Top(c).t, schema_objs, visiting[c])

\* Line 338: t_name in self.schema_objs holds.
ExtractSchemaHit(c) ==
  /\ Entering(c)
  /\ Outcome(c) = "cached"
  /\ stack' = [stack EXCEPT ![c] = ReplaceTop(c, [Top(c) EXCEPT !.phase = "hit"])]
  /\ UNCHANGED <<router, pool, open_api_obj, schema_objs, pc, visiting, roots,
                 prim_stores, type_names, schemas_obj, bindings, paths_obj,
                 param_order, reads, seen, calls, builds, returned, expanded,
                 written, ncalls, concurrent, back_edges, pathVars>>

\* Line 339: return self.schema_objs[t_name]; KeyError if the catalog that
\* self.schema_objs names now does not hold t_name.
ExtractSchemaCached(c) ==
  /\ pc[c] = "extract"
  /\ stack[c] # <<>>
  /\ Top(c).phase = "hit"
  /\ IF DictHas(schema_objs, Top(c).t_name)
       THEN /\ stack' = [stack EXCEPT ![c] = Pop(c)]
            /\ UNCHANGED <<router, pool, open_api_obj, schema_objs, pc,
                           visiting, roots, prim_stores, type_names,
                           schemas_obj, bindings, paths_obj, param_order,
                           reads, seen, calls, builds, returned, expanded,
                           written, ncalls, concurrent, back_edges, pathVars>>
       ELSE /\ Raise(c, "KeyError")
            /\ UNCHANGED <<router, pool, open_api_obj, schema_objs, calls,
                           builds, expanded, written, ncalls, concurrent,
                           back_edges, pathVars>>

\* t_name in visiting: a dependency cycle, the call returns None.
ExtractSchemaCycle(c) ==
  /\ Entering(c)
  /\ Outcome(c) = "cycle"
  /\ stack' = [stack EXCEPT ![c] = Pop(c)]
  /\ back_edges' =
       IF Len(stack[c]) > 1
         THEN LET caller == stack[c][Len(stack[c]) - 1]
              IN back_edges \cup
                   {[message |-> caller.t_name,
                     field |-> pool[caller.t_name].fields[caller.i].name]}
         ELSE back_edges
  /\ UNCHANGED <<router, pool, open_api_obj, schema_objs, pc, visiting, roots,
                 prim_stores, type_names, schemas_obj, bindings, paths_obj,
                 param_order, reads, seen, calls, builds, returned, expanded,
                 written, ncalls, concurrent, pathVars>>

ExtractSchemaRaise(c) ==
  /\ Entering(c)
  /\ Outcome(c) \in {"ValueError", "TypeError"}
  /\ Raise(c, Outcome(c))
  /\ UNCHANGED <<router, pool, open_api_obj, schema_objs, calls, builds,
                 expanded, written, ncalls, concurrent, back_edges, pathVars>>

\* _ExtractEnumSchema up to its store: lines 283-294 build enum_schema_obj.
ExtractEnumBegin(c) ==
  /\ Entering(c)
  /\ Outcome(c) = "enum"
  /\ stack' = [stack EXCEPT ![c] =
                 ReplaceTop(c, [Top(c) EXCEPT
                                  !.phase = "enum",
                                  !.schema_obj =
                                    EnumSchema(pool[Top(c).t_name].values)])]
  /\ expanded' = [expanded EXCEPT ![Top(c).t_name] = @ + 1]
  /\ UNCHANGED <<router, pool, open_api_obj, schema_objs, pc, visiting, roots,
                 prim_stores, type_names, schemas_obj, bindings, paths_obj,
                 param_order, reads, seen, calls, builds, returned, written,
                 ncalls, concurrent, back_edges, pathVars>>

\* Line 296: self.schema_objs[t_name] = enum_schema_obj
ExtractEnum(c) ==
  /\ pc[c] = "extract"
  /\ stack[c] # <<>>
  /\ Top(c).phase = "enum"
  /\ schema_objs' = CatalogSet(schema_objs, Top(c).t_name, Top(c).schema_obj)
  /\ written' = [written EXCEPT ![Top(c).t_name] = @ + 1]
  /\ stack' = [stack EXCEPT ![c] = Pop(c)]
  /\ UNCHANGED <<router, pool, open_api_obj, pc, visiting, roots, prim_stores,
                 type_names, schemas_obj, bindings, paths_obj, param_order,
                 reads, seen, calls, builds, returned, expanded, ncalls,
                 concurrent, back_edges, pathVars>>

\* _ExtractMessageSchema up to its loop over the fields.
ExtractMessageBegin(c) ==
  /\ Entering(c)
  /\ Outcome(c) = "message"
  /\ visiting' = [visiting EXCEPT ![c] = @ \cup {Top(c).t_name}]
  /\ stack' = [stack EXCEPT ![c] =
                 ReplaceTop(c, [Top(c) EXCEPT
                                  !.phase = "fields", !.i = 1,
                                  !.schema_obj =
                                    JO(<<KV("type", JS("object")),
                                         KV("properties", EmptyDict)>>)])]
  /\ expanded' = [expanded EXCEPT ![Top(c).t_name] = @ + 1]
  /\ UNCHANGED <<router, pool, open_api_obj, schema_objs, pc, roots,
                 prim_stores, type_names, schemas_obj, bindings, paths_obj,
                 param_order, reads, seen, calls, builds, returned, written,
                 ncalls, concurrent, back_edges, pathVars>>

Fields(c) == pool[Top(c).t_name].fields
Field(c) == Fields(c)[Top(c).i]
\* descriptor = message_descriptor or enum_descriptor
FieldDescriptorName(field_d) ==
  IF field_d.message_type # "" THEN field_d.message_type ELSE field_d.enum_type

\* The field has a message or enum type: self._ExtractSchema(descriptor, visiting)
ExtractFieldRecurse(c) ==
  /\ InMessage(c)
  /\ Top(c).i <= Len(Fields(c))
  /\ ~Top(c).awaiting
  /\ FieldDescriptorName(Field(c)) # ""
  /\ Len(stack[c]) < MaxStack
  /\ stack' = [stack EXCEPT ![c] =
                 Append(ReplaceTop(c, [Top(c) EXCEPT !.awaiting = TRUE]),
                        Frame(DescriptorOf(FieldDescriptorName(Field(c)))))]
  /\ ncalls' = ncalls + 1
  /\ UNCHANGED <<router, pool, open_api_obj, schema_objs, pc, visiting, roots,
                 prim_stores, type_names, schemas_obj, bindings, paths_obj,
                 param_order, reads, seen, calls, builds, returned, expanded,
                 written, concurrent, back_edges, pathVars>>

\* Line 412 would raise KeyError: the type of the field is primitive and the
\* catalog that self.schema_objs names now does not hold it.
MissingPrimitive(objs, type_name) ==
  IsPrimitiveName(type_name) /\ ~DictHas(objs, type_name)

ExtractFieldSet_SkipBackEdge(c) ==
  /\ InMessage(c)
  /\ Top(c).i <= Len(Fields(c))
  /\ Top(c).awaiting \/ FieldDescriptorName(Field(c)) = ""
  /\ IF MissingPrimitive(schema_objs, _GetTypeName(Field(c)))
       THEN /\ Raise(c, "KeyError")
            /\ UNCHANGED <<router, pool, open_api_obj, schema_objs, calls,
                           builds, expanded, written, ncalls, concurrent,
                           back_edges, pathVars>>
       ELSE /\ LET properties == DictGet(Top(c).schema_obj, "properties")
                   schema_or_ref_obj == FieldSchema(schema_objs, Field(c))
                   kept == IF _GetTypeName(Field(c)) \in visiting[c]
                             THEN properties
                             ELSE DictSet(properties, Field(c).name,
                                          schema_or_ref_obj)
               IN stack' = [stack EXCEPT ![c] =
                              ReplaceTop(c, [Top(c) EXCEPT
                                               !.i = @ + 1, !.awaiting = FALSE,
                                               !.schema_obj =
                                                 DictSet(@, "properties", kept)])]
            /\ UNCHANGED <<router, pool, open_api_obj, schema_objs, pc,
                           visiting, roots, prim_stores, type_names,
                           schemas_obj, bindings, paths_obj, param_order,
                           reads, seen, calls, builds, returned, expanded,
                           written, ncalls, concurrent, back_edges, pathVars>>

\* Lines 320-325: schema_or_ref_obj = self._GetSchemaOrReferenceObject(...);
\* schema_obj["properties"][field_name] = schema_or_ref_obj
ExtractFieldSet(c) ==
  /\ InMessage(c)
  /\ Top(c).i <= Len(Fields(c))
  /\ Top(c).awaiting \/ FieldDescriptorName(Field(c)) = ""
  /\ IF MissingPrimitive(schema_objs, _GetTypeName(Field(c)))
       THEN /\ Raise(c, "KeyError")
            /\ UNCHANGED <<router, pool, open_api_obj, schema_objs, calls,
                           builds, expanded, written, ncalls, concurrent,
                           back_edges, pathVars>>
       ELSE /\ LET properties == DictGet(Top(c).schema_obj, "properties")
                   schema_or_ref_obj == FieldSchema(schema_objs, Field(c))
               IN stack' = [stack EXCEPT ![c] =
                              ReplaceTop(c, [Top(c) EXCEPT
                                               !.i = @ + 1, !.awaiting = FALSE,
                                               !.schema_obj =
                                                 DictSet(@, "properties",
                                                         DictSet(properties,
                                                                 Field(c).name,
                                                                 schema_or_ref_obj))])]
            /\ UNCHANGED <<router, pool, open_api_obj, schema_objs, pc,
                           visiting, roots, prim_stores, type_names,
                           schemas_obj, bindings, paths_obj, param_order,
                           reads, seen, calls, builds, returned, expanded,
                           written, ncalls, concurrent, back_edges, pathVars>>

\* visiting.remove(t_name); self.schema_objs[t_name] = schema_obj
ExtractMessageEnd(c) ==
  /\ InMessage(c)
  /\ Top(c).i > Len(Fields(c))
  /\ visiting' = [visiting EXCEPT ![c] = @ \ {Top(c).t_name}]
  /\ schema_objs' = CatalogSet(schema_objs, Top(c).t_name, Top(c).schema_obj)
  /\ written' = [written EXCEPT ![Top(c).t_name] = @ + 1]
  /\ stack' = [stack EXCEPT ![c] = Pop(c)]
  /\ UNCHANGED <<router, pool, open_api_obj, pc, roots, prim_stores,
                 type_names, schemas_obj, bindings, paths_obj, param_order,
                 reads, seen, calls, builds, returned, expanded, ncalls,
                 concurrent, back_edges, pathVars>>

\* _SetComponents up to its loop: type_names = set(self.schema_objs.keys());
\* `order` is the order in which the loop over the set type_names -
\* primitive_types_names yields the names.  self.schema_objs is not None
\* once a caller has run line 358.
SetComponentsBegin(c) ==
  /\ pc[c] = "SetComponents"
  /\ ~IsNone(schema_objs)
  /\ \E order \in Orders(CompositeNames(schema_objs)) :
       type_names' = [type_names EXCEPT ![c] = order]
  /\ schemas_obj' = [schemas_obj EXCEPT ![c] = EmptyDict]
  /\ pc' = [pc EXCEPT ![c] = "components"]
  /\ UNCHANGED <<router, pool, open_api_obj, schema_objs, stack, visiting,
                 roots, prim_stores, bindings, paths_obj, param_order, reads,
                 seen, calls, builds, returned, expanded, written, ncalls,
                 concurrent, back_edges, pathVars>>

\* Line 392: schemas_obj[type_name] = self.schema_objs[type_name]; KeyError
\* if the catalog that self.schema_objs names now does not hold type_name.
SetComponentsCopy(c) ==
  /\ pc[c] = "components"
  /\ type_names[c] # <<>>
  /\ IF DictHas(schema_objs, Head(type_names[c]))
       THEN /\ schemas_obj' =
                 [schemas_obj EXCEPT ![c] =
                    DictSet(@, Head(type_names[c]),
                            DictGet(schema_objs, Head(type_names[c])))]
            /\ type_names' = [type_names EXCEPT ![c] = Tail(@)]
            /\ UNCHANGED <<router, pool, open_api_obj, schema_objs, pc, stack,
                           visiting, roots, prim_stores, bindings, paths_obj,
                           param_order, reads, seen, calls, builds, returned,
                           expanded, written, ncalls, concurrent, back_edges,
                           pathVars>>
       ELSE /\ Raise(c, "KeyError")
            /\ UNCHANGED <<router, pool, open_api_obj, schema_objs, calls,
                           builds, expanded, written, ncalls, concurrent,
                           back_edges, pathVars>>

\* Line 396: self.open_api_obj["components"] = components_obj; then
\* _SetEndpoints begins with an empty paths_obj.
SetComponents(c) ==
  /\ pc[c] = "components"
  /\ type_names[c] = <<>>
  /\ open_api_obj' = DictSet(open_api_obj, "components",
                             ComponentsObj(schemas_obj[c]))
  /\ schemas_obj' = [schemas_obj EXCEPT ![c] = EmptyDict]
  /\ bindings' = [bindings EXCEPT ![c] = AllBindings(router)]
  /\ paths_obj' = [paths_obj EXCEPT ![c] = EmptyDict]
  /\ pc' = [pc EXCEPT ![c] = "SetEndpoints"]
  /\ UNCHANGED <<router, pool, schema_objs, stack, visiting, roots,
                 prim_stores, type_names, param_order, reads, seen, calls,
                 builds, returned, expanded, written, ncalls, concurrent,
                 back_edges, pathVars>>

BindingMethod(c) == router[Head(bindings[c]).m]
BindingOf(c) == BindingMethod(c).http_methods[Head(bindings[c]).b]

\* The body of the loop of _SetEndpoints for one binding up to its first
\* read of self.schema_objs: lines 520-563, on locals.
SetEndpointsBegin(c) ==
  /\ pc[c] = "SetEndpoints"
  /\ bindings[c] # <<>>
  /\ ~ArgsTypeError(BindingMethod(c))
  /\ \E order \in Orders(ParameterFields(BindingMethod(c), BindingOf(c).http_method,
                                         BindingOf(c).path)) :
       /\ param_order' = [param_order EXCEPT ![c] = order]
       /\ reads' = [reads EXCEPT ![c] =
                      PrimitiveReads(BindingMethod(c), BindingOf(c).http_method,
                                     BindingOf(c).path, order)]
  /\ seen' = [seen EXCEPT ![c] = EmptyDict]
  /\ pc' = [pc EXCEPT ![c] = "operation"]
  /\ UNCHANGED <<router, pool, open_api_obj, schema_objs, stack, visiting,
                 roots, prim_stores, type_names, schemas_obj, bindings,
                 paths_obj, calls, builds, returned, expanded, written,
                 ncalls, concurrent, back_edges, pathVars>>

\* Line 412: schema_obj = self.schema_objs[type_name] for the next primitive
\* type of the binding; KeyError if the catalog that self.schema_objs names
\* now does not hold it.
SetEndpointsRead(c) ==
  /\ pc[c] = "operation"
  /\ reads[c] # <<>>
  /\ IF DictHas(schema_objs, Head(reads[c]))
       THEN /\ seen' = [seen EXCEPT ![c] =
                          DictSet(@, Head(reads[c]),
                                  DictGet(schema_objs, Head(reads[c])))]
            /\ reads' = [reads EXCEPT ![c] = Tail(@)]
            /\ UNCHANGED <<router, pool, open_api_obj, schema_objs, pc, stack,
                           visiting, roots, prim_stores, type_names,
                           schemas_obj, bindings, paths_obj, param_order,
                           calls, builds, returned, expanded, written, ncalls,
                           concurrent, back_edges, pathVars>>
       ELSE /\ Raise(c, "KeyError")
            /\ UNCHANGED <<router, pool, open_api_obj, schema_objs, calls,
                           builds, expanded, written, ncalls, concurrent,
                           back_edges, pathVars>>

\* path_obj[http_method.lower()] = operation_obj, the operation being built
\* from the schemas the binding has read.
SetEndpointsStep(c) ==
  /\ pc[c] = "operation"
  /\ reads[c] = <<>>
  /\ paths_obj' = [paths_obj EXCEPT ![c] =
                     AddOperation(@, seen[c], BindingMethod(c),
                                  BindingOf(c).http_method, BindingOf(c).path,
                                  param_order[c])]
  /\ bindings' = [bindings EXCEPT ![c] = Tail(@)]
  /\ param_order' = [param_order EXCEPT ![c] = <<>>]
  /\ seen' = [seen EXCEPT ![c] = EmptyDict]
  /\ pc' = [pc EXCEPT ![c] = "SetEndpoints"]
  /\ UNCHANGED <<router, pool, open_api_obj, schema_objs, stack, visiting,
                 roots, prim_stores, type_names, schemas_obj, reads, calls,
                 builds, returned, expanded, written, ncalls, concurrent,
                 back_edges, pathVars>>

\* raise TypeError("Router method args type is not a RDFProtoStruct subclass.")
SetEndpointsRaise(c) ==
  /\ pc[c] = "SetEndpoints"
  /\ bindings[c] # <<>>
  /\ ArgsTypeError(BindingMethod(c))
  /\ Raise(c, "TypeError")
  /\ UNCHANGED <<router, pool, open_api_obj, schema_objs, calls, builds,
                 expanded, written, ncalls, concurrent, back_edges, pathVars>>

\* self.open_api_obj["paths"] = paths_obj
SetEndpointsEnd(c) ==
  /\ pc[c] = "SetEndpoints"
  /\ bindings[c] = <<>>
  /\ open_api_obj' = DictSet(open_api_obj, "paths", paths_obj[c])
  /\ pc' = [pc EXCEPT ![c] = "return"]
  /\ UNCHANGED <<router, pool, schema_objs, stack, visiting, roots,
                 prim_stores, type_names, schemas_obj, bindings, paths_obj,
                 param_order, reads, seen, calls, builds, returned, expanded,
                 written, ncalls, concurrent, back_edges, pathVars>>

\* result.open_api_description = json.dumps(self.open_api_obj); return result
HandleReturn(c) ==
  /\ pc[c] = "return"
  /\ pc' = [pc EXCEPT ![c] = "done"]
  /\ returned' = Append(returned, Returned(c, open_api_obj))
  /\ UNCHANGED <<router, pool, open_api_obj, schema_objs, stack, visiting,
                 roots, prim_stores, type_names, schemas_obj, bindings,
                 paths_obj, param_order, reads, seen, calls, builds, expanded,
                 written, ncalls, concurrent, back_edges, pathVars>>

Next ==
  \E c \in Callers :
    \/ HandleCall(c)
    \/ HandleHit(c)
    \/ HandleCached(c)
    \/ HandleMiss(c)
    \/ HandleReset(c)
    \/ SetMetadataOpenapi(c)
    \/ SetMetadataInfo(c)
    \/ SetMetadataServers(c)
    \/ SetMetadataServer(c)
    \/ ExtractSchemasBegin(c)
    \/ AddPrimitiveTypeSchema(c)
    \/ ExtractSchemasLoop(c)
    \/ ExtractNextRoot(c)
    \/ ExtractSchemasEnd(c)
    \/ ExtractSchemaHit(c)
    \/ ExtractSchemaCached(c)
    \/ ExtractSchemaCycle(c)
    \/ ExtractSchemaRaise(c)
    \/ ExtractEnumBegin(c)
    \/ ExtractEnum(c)
    \/ ExtractMessageBegin(c)
    \/ ExtractFieldRecurse(c)
    \/ ExtractFieldSet(c)
    \/ ExtractMessageEnd(c)
    \/ SetComponentsBegin(c)
    \/ SetComponentsCopy(c)
    \/ SetComponents(c)
    \/ SetEndpointsBegin(c)
    \/ SetEndpointsRead(c)
    \/ SetEndpointsStep(c)
    \/ SetEndpointsRaise(c)
    \/ SetEndpointsEnd(c)
    \/ HandleReturn(c)

\* Calls on one instance that follow each other.
Spec == Init /\ [][Next]_vars

\* Calls on one instance that may overlap.
SpecConc == InitConc /\ [][Next]_vars

-----------------------------------------------------------------------------
(* The path functions applied to URL templates.                            *)

TemplateChars == {"a", "b", "<", ">", ":", "/", "{", "}"}

SampleTemplates ==
  {<<"/", "f", "o", "o", "/", "<", "i", "n", "t", ":", "i", "d", ">", "/", "b", "a", "r">>,
   <<"/", "a", "p", "i", "/", "c", "l", "i", "e", "n", "t", "s", "/", "<", "c", "l", "i", "e", "n", "t", "_", "i", "d", ">", "/", "f", "i", "l", "e", "s", "/", "<", "p", "a", "t", "h", ":", "f", "i", "l", "e", "_", "p", "a", "t", "h", ">">>,
   <<"/", "a", "/", "/", "<", "b", ":", "a", ":", "a", "b", ">", "/">>,
   <<"/", "{", "x", "}", "/", "<", "y", ">">>,
   <<"/", "<", "a", ">", "/", "{", "b", "}", "/", "<", "i", "n", "t", ":", "c", ">">>}

Templates ==
  UNION {[1..n -> TemplateChars] : n \in 0..MaxTplLen} \cup SampleTemplates

InitPath ==
  /\ InitHandler([pool |-> FixedPool, router |-> <<GetBlob>>], FALSE)
  /\ tpl \in Templates
  /\ tplSimple = <<>>
  /\ tplArgs = <<>>
  /\ tplDone = {}

ApplySimplifyPath ==
  /\ "_SimplifyPath" \notin tplDone
  /\ tplSimple' = _SimplifyPath(tpl)
  /\ tplDone' = tplDone \cup {"_SimplifyPath"}
  /\ UNCHANGED <<handlerVars, tpl, tplArgs>>

ApplyGetPathArgs ==
  /\ "_GetPathArgsFromPath" \notin tplDone
  /\ tplArgs' = _GetPathArgsFromPath(tpl)
  /\ tplDone' = tplDone \cup {"_GetPathArgsFromPath"}
  /\ UNCHANGED <<handlerVars, tpl, tplSimple>>

NextPath == ApplySimplifyPath \/ ApplyGetPathArgs

\* The path functions on every template of the bounded set.
SpecPath == InitPath /\ [][NextPath]_vars

-----------------------------------------------------------------------------
(* Reading a document.                                                     *)

\* The document has the parts that _SetComponents and _SetEndpoints add.
Complete(doc) ==
  /\ IsDict(doc)
  /\ DictHas(doc, "components")
  /\ DictHas(doc, "paths")

\* doc["components"]["schemas"]
Schemas(doc) == DictGet(DictGet(doc, "components"), "schemas")

\* The (method, binding) pairs of the registry.
RouterBindings == SeqToSet(AllBindings(router))

\* The http_methods entry a pair stands for.
BindingAt(mb) == router[mb.m].http_methods[mb.b]

\* doc["paths"][simple path][lowercase verb] of a binding.
OperationOf(doc, binding) ==
  DictGet(DictGet(DictGet(doc, "paths"), Str(_SimplifyPath(binding.path))),
          Str(Lower(binding.http_method)))

-----------------------------------------------------------------------------
(* Caching of the document by Handle.                                      *)

\* Once a call has returned a document the instance keeps it as it is.
CacheKept ==
  \A i \in 1..Len(returned) :
    returned[i].ok =>
      /\ builds = 1
      /\ open_api_obj = returned[i].doc
      /\ \A j \in i..Len(returned) :
           /\ returned[j].ok
           /\ returned[j].open_api_description = returned[i].open_api_description

\* After a returned document no step changes the document or the catalog.
CacheStable ==
  (\E i \in 1..Len(returned) : returned[i].ok) =>
    UNCHANGED <<open_api_obj, schema_objs>>

\* C1: after a call to Handle has returned a document, every later call on
\* the same instance returns the byte-identical serialized document, and
\* neither the schema catalog nor the document is rebuilt or changed: the
\* instance has started exactly one build, the cached document is the one
\* that was returned, and no step modifies open_api_obj or schema_objs.
Thm_C1 == [](CacheKept) /\ [][CacheStable]_vars

\* Two calls have returned, the second one from the cache, with the whole
\* document.
Witness_C1 ==
  /\ Len(returned) = 2
  /\ returned[1].ok /\ returned[2].ok
  /\ Complete(returned[2].doc)
  /\ returned[1].open_api_description = returned[2].open_api_description
  /\ builds = 1

\* C2 (as stated): when a call to Handle has raised, no later call on the
\* same instance returns a document that lacks "components" or "paths".
Claim_C2 ==
  \A i, j \in 1..Len(returned) :
    (i < j /\ ~returned[i].ok /\ returned[j].ok) => Complete(returned[j].doc)

\* C3 (as stated): when calls to Handle overlap on a registry that builds
\* without error, the document is built at most once, every caller returns
\* the complete document, and a caller that tests the cache finds it either
\* empty or complete.
Claim_C3 ==
  WellTyped(router) =>
    /\ builds <= 1
    /\ \A i \in 1..Len(returned) :
         returned[i].ok /\ Complete(returned[i].doc)
    /\ \A c \in Callers :
         pc[c] = "check" => (IsNone(open_api_obj) \/ Complete(open_api_obj))

-----------------------------------------------------------------------------
(* Recursion of _ExtractSchema over a type graph.                          *)

\* A step of a running _ExtractSchema call of caller c.
ExtractSchemaStep(c) ==
  \/ ExtractSchemaHit(c)
  \/ ExtractSchemaCached(c)
  \/ ExtractSchemaCycle(c)
  \/ ExtractSchemaRaise(c)
  \/ ExtractEnumBegin(c)
  \/ ExtractEnum(c)
  \/ ExtractMessageBegin(c)
  \/ ExtractFieldRecurse(c)
  \/ ExtractFieldSet(c)
  \/ ExtractMessageEnd(c)

\* The sequential calls; a running _ExtractSchema call keeps executing.
SpecFair == Spec /\ \A c \in Callers : WF_vars(ExtractSchemaStep(c))

\* The message types of the type graph.
MessageNames == {n \in DOMAIN pool : pool[n].kind = "message"}

\* The fields of the graph that have a message or an enum type.
CompositeFields ==
  UNION {{<<n, i>> : i \in {k \in 1..Len(pool[n].fields) :
                              FieldDescriptorName(pool[n].fields[k]) # ""}} :
         n \in MessageNames}

\* _ExtractSchemas has called _ExtractSchema on a message or an enum and the
\* call has not returned yet.
RootRunning(c) ==
  /\ pc[c] = "extract"
  /\ stack[c] # <<>>
  /\ stack[c][1].t.kind \in {"message", "enum"}

\* The calls of _ExtractSchema nested below the call on the root.
NestedCalls(c) == Len(stack[c]) - 1

\* The messages whose _ExtractMessageSchema is running.
Expanding(c) ==
  {k \in 1..Len(stack[c]) : stack[c][k].phase = "fields"}

\* While a root is extracted the recursion stays within the number of
\* message types and below the cap of the model, takes no error branch, and
\* has made at most one call per composite field besides the root call.
DepthBounded ==
  \A c \in Callers :
    RootRunning(c) =>
      /\ NestedCalls(c) <= Cardinality(MessageNames)
      /\ Cardinality(Expanding(c)) <= Cardinality(MessageNames)
      /\ Cardinality(visiting[c]) = Cardinality(Expanding(c))
      /\ Len(stack[c]) < MaxStack
      /\ Top(c).phase = "enter" => Outcome(c) \notin {"ValueError", "TypeError"}
      /\ ncalls <= 1 + Cardinality(CompositeFields)

\* The call on the root has returned to the loop of _ExtractSchemas.
RootReturned(c) == pc[c] = "extract" /\ stack[c] = <<>>

\* C4: on every type graph of messages and enums, self-references and longer
\* cycles included, a call of _ExtractSchema on a message or enum root
\* returns without raising, and while it runs the recursion below the root
\* call is never deeper than the number of message types of the graph (at
\* most that many _ExtractMessageSchema bodies are running, one per name in
\* visiting).
Thm_C4 ==
  /\ [](DepthBounded)
  /\ \A c \in Callers : RootRunning(c) ~> RootReturned(c)

\* The recursion has come back to a type that is being expanded, at a depth
\* equal to the number of message types of the graph.
Witness_C4 ==
  /\ RootRunning(1)
  /\ Top(1).phase = "enter"
  /\ Outcome(1) = "cycle"
  /\ Cardinality(Expanding(1)) = Cardinality(MessageNames)
  /\ NestedCalls(1) = Cardinality(MessageNames)

-----------------------------------------------------------------------------
(* References to composite types in the built document.                    *)

\* The entries a dict holds under a key.
Entries(d, key) == Cardinality({i \in 1..Len(d.obj) : d.obj[i].k = key})

IsCompositeField(field_d) == FieldDescriptorName(field_d) # ""

\* A use of the composite type of a field: a reference, or an array of them.
RefUse(field_d) ==
  IF field_d.label = LABEL_REPEATED
    THEN JO(<<KV("type", JS("array")),
              KV("items", JO(<<KV("$ref", JS("#/components/schemas/"
                                             \o FieldDescriptorName(field_d)))>>))>>)
    ELSE JO(<<KV("$ref", JS("#/components/schemas/"
                            \o FieldDescriptorName(field_d)))>>)

\* operation["parameters"] and the positions of the parameters of a name.
ParametersOf(op) == DictGet(op, "parameters").arr
ParamsNamed(op, name) ==
  {i \in 1..Len(ParametersOf(op)) : DictGet(ParametersOf(op)[i], "name") = JS(name)}

\* The properties of the schema of operation["requestBody"], if it has one.
BodyPropertiesOf(op) ==
  IF DictHas(op, "requestBody")
    THEN DictGet(DictGet(DictGet(DictGet(DictGet(op, "requestBody"), "content"),
                                 "application/json"), "schema"), "properties")
    ELSE EmptyDict

\* operation["responses"]["200"]
Response200Of(op) == DictGet(DictGet(op, "responses"), "200")

\* The message or enum a declared result type stands for, "" if none.
CompositeResultName(result_type) ==
  IF result_type.kind = "class" /\ result_type.rdf THEN result_type.descriptor
  ELSE IF result_type.kind \in {"message", "enum"} THEN result_type.full_name
  ELSE ""

RefsOnly(doc) ==
  LET S == Schemas(doc)
  IN /\ \A n \in DictKeys(S) : Entries(S, n) = 1
     /\ \A n \in DictKeys(S) \cap MessageNames :
          \A i \in 1..Len(pool[n].fields) :
            LET f == pool[n].fields[i]
            IN IsCompositeField(f) =>
                 /\ DictGet(DictGet(DictGet(S, n), "properties"), f.name) = RefUse(f)
                 /\ Entries(S, FieldDescriptorName(f)) = 1
     /\ \A mb \in RouterBindings :
          LET m == router[mb.m]
              op == OperationOf(doc, BindingAt(mb))
              fields == FieldDescriptors(m)
              result == CompositeResultName(m.result_type)
          IN /\ \A i \in 1..Len(fields) :
                  IsCompositeField(fields[i]) =>
                    /\ \A k \in ParamsNamed(op, fields[i].name) :
                         DictGet(ParametersOf(op)[k], "schema") = RefUse(fields[i])
                    /\ DictHas(BodyPropertiesOf(op), fields[i].name) =>
                         DictGet(BodyPropertiesOf(op), fields[i].name)
                           = RefUse(fields[i])
                    /\ \/ ParamsNamed(op, fields[i].name) # {}
                       \/ DictHas(BodyPropertiesOf(op), fields[i].name)
                    /\ Entries(S, FieldDescriptorName(fields[i])) = 1
             /\ result # "" =>
                  /\ DictGet(DictGet(DictGet(Response200Of(op), "content"),
                                     "application/json"), "schema")
                       = JO(<<KV("$ref", JS("#/components/schemas/" \o result))>>)
                  /\ Entries(S, result) = 1

\* C5: in the built document every composite type has exactly one entry in
\* components.schemas, and every use of a composite type (a property of a
\* message, the schema of a parameter, a property of a request body, the
\* schema of a 200 response, the items of an array) is the object
\* {"$ref": "#/components/schemas/<name>"} naming an entry, never a copy of
\* the schema of the type.
Thm_C5 == Complete(open_api_obj) => RefsOnly(open_api_obj)

\* A document is built in which grr.Node is the result of one method, the
\* item type of a query parameter of it, of a body property of another
\* method, and the type of a field of itself.
Witness_C5 ==
  /\ router = <<ListNodes, PutNodes>>
  /\ pc[1] = "done"
  /\ Complete(open_api_obj)
  /\ DictKeys(Schemas(open_api_obj)) = {"grr.Args", "grr.Node", "grr.Kind"}

-----------------------------------------------------------------------------
(* Primitive and composite entries of the catalog.                         *)

Primitive16 ==
  {"protobuf2.TYPE_DOUBLE", "protobuf2.TYPE_FLOAT", "protobuf2.TYPE_INT64",
   "protobuf2.TYPE_UINT64", "protobuf2.TYPE_INT32", "protobuf2.TYPE_FIXED64",
   "protobuf2.TYPE_FIXED32", "protobuf2.TYPE_BOOL", "protobuf2.TYPE_STRING",
   "protobuf2.TYPE_BYTES", "protobuf2.TYPE_UINT32", "protobuf2.TYPE_SFIXED32",
   "protobuf2.TYPE_SFIXED64", "protobuf2.TYPE_SINT32", "protobuf2.TYPE_SINT64",
   "BinaryStream"}

\* C6: once the build has set components, the keys of components.schemas
\* are the keys of the schema catalog less the 16 primitive names (the 15
\* protobuf primitive names and "BinaryStream"): no primitive name is a key
\* of components.schemas, and every composite type that was extracted is a
\* key of it, with the schema the catalog holds.
Thm_C6 ==
  (IsDict(open_api_obj) /\ DictHas(open_api_obj, "components")) =>
    /\ Cardinality(Primitive16) = 16
    /\ Primitive16 \subseteq DictKeys(schema_objs)
    /\ DictKeys(Schemas(open_api_obj)) = DictKeys(schema_objs) \ Primitive16
    /\ \A n \in DOMAIN pool :
         (expanded[n] > 0 \/ written[n] > 0) =>
           /\ DictHas(Schemas(open_api_obj), n)
           /\ DictGet(Schemas(open_api_obj), n) = DictGet(schema_objs, n)

\* A document is built for a method that returns the raw stream marker and a
\* method that uses messages and an enum.
Witness_C6 ==
  /\ router = <<GetBlob, ListNodes>>
  /\ Complete(open_api_obj)
  /\ DictHas(schema_objs, "BinaryStream")
  /\ DictKeys(Schemas(open_api_obj)) = {"grr.Args", "grr.Node", "grr.Kind"}

-----------------------------------------------------------------------------
(* Placement of the fields of the input message of an operation.           *)

\* The group of a field under the rule of path, then verb.
GroupOf(field_d, binding) ==
  IF field_d.name \in PathArgSet(binding.path) THEN "path"
  ELSE IF Str(Lower(binding.http_method)) \in {"get", "head"} THEN "query"
  ELSE "body"

Placed(doc, mb) ==
  LET op == OperationOf(doc, BindingAt(mb))
      fields == FieldDescriptors(router[mb.m])
      body == BodyPropertiesOf(op)
      InGroup(g) == {i \in 1..Len(fields) : GroupOf(fields[i], BindingAt(mb)) = g}
  IN /\ \A i \in InGroup("path") :
          /\ Cardinality(ParamsNamed(op, fields[i].name)) = 1
          /\ \A k \in ParamsNamed(op, fields[i].name) :
               /\ DictGet(ParametersOf(op)[k], "in") = JS("path")
               /\ DictHas(ParametersOf(op)[k], "required")
               /\ DictGet(ParametersOf(op)[k], "required") = JB(TRUE)
          /\ ~DictHas(body, fields[i].name)
     /\ \A i \in InGroup("query") :
          /\ Cardinality(ParamsNamed(op, fields[i].name)) = 1
          /\ \A k \in ParamsNamed(op, fields[i].name) :
               /\ DictGet(ParametersOf(op)[k], "in") = JS("query")
               /\ ~DictHas(ParametersOf(op)[k], "required")
          /\ ~DictHas(body, fields[i].name)
     /\ \A i \in InGroup("body") :
          /\ ParamsNamed(op, fields[i].name) = {}
          /\ DictHas(body, fields[i].name)
     /\ Len(ParametersOf(op)) = Cardinality(InGroup("path") \cup InGroup("query"))
     /\ DictKeys(body) = {fields[i].name : i \in InGroup("body")}
     /\ DictHas(op, "requestBody") <=> InGroup("body") # {}

\* C7: for every (verb, URL template) binding and every field of the input
\* message, the field is in exactly one group: path if its name is a path
\* parameter of the template, whatever the verb; else query if the verb,
\* compared without case, is GET or HEAD; else body.  A path field is one
\* parameter with in=path and required=true, a query field one parameter
\* with in=query, a body field a property of the requestBody, which the
\* operation has exactly when some field is in the body group.
Thm_C7 ==
  Complete(open_api_obj) =>
    \A mb \in RouterBindings : Placed(open_api_obj, mb)

\* A document is built with a GET and a POST binding on a template with a
\* path parameter and a lower-case "head" binding without one.
Witness_C7 ==
  /\ router = <<PutNodes, ListNodes>>
  /\ pc[1] = "done"
  /\ Complete(open_api_obj)
  /\ DictHas(OperationOf(open_api_obj, PutNodes.http_methods[1]), "requestBody")
  /\ ~DictHas(OperationOf(open_api_obj, PutNodes.http_methods[2]), "requestBody")
  /\ Len(ParametersOf(OperationOf(open_api_obj, PutNodes.http_methods[2]))) = 2
  /\ Len(ParametersOf(OperationOf(open_api_obj, ListNodes.http_methods[1]))) = 2

-----------------------------------------------------------------------------
(* URL templates and their simplified form.                                *)

\* A segment of the form <...>.
BracketForm(seg) == Len(seg) >= 2 /\ seg[1] = "<" /\ seg[Len(seg)] = ">"

\* The text after the last ":" of a text, the whole text if it has none.
AfterLastColon(text) ==
  LET colons == {i \in 1..Len(text) : text[i] = ":"}
      last == IF colons = {} THEN 0
              ELSE CHOOSE i \in colons : \A j \in colons : j <= i
  IN SubSeq(text, last + 1, Len(text))

ExpectedSegment(seg) ==
  IF BracketForm(seg)
    THEN <<"{">> \o AfterLastColon(SubSeq(seg, 2, Len(seg) - 1)) \o <<"}">>
    ELSE seg

\* The names in braces of a simplified path, from left to right.
RECURSIVE NamesInBraces(_)
NamesInBraces(segs) ==
  IF segs = <<>> THEN <<>>
  ELSE LET seg == Head(segs)
       IN IF Len(seg) >= 2 /\ seg[1] = "{" /\ seg[Len(seg)] = "}"
            THEN <<SubSeq(seg, 2, Len(seg) - 1)>> \o NamesInBraces(Tail(segs))
            ELSE NamesInBraces(Tail(segs))

\* The segments of a template that have the form <...>, at the places where
\* the simplified path holds them.
RECURSIVE SimplifiedParams(_, _)
SimplifiedParams(segs, out) ==
  IF segs = <<>> \/ out = <<>> THEN <<>>
  ELSE IF BracketForm(Head(segs))
    THEN <<Head(out)>> \o SimplifiedParams(Tail(segs), Tail(out))
    ELSE SimplifiedParams(Tail(segs), Tail(out))

\* A segment that is not of the form <...> but is written in braces.
LiteralBraces(seg) ==
  /\ ~BracketForm(seg)
  /\ Len(seg) >= 2 /\ seg[1] = "{" /\ seg[Len(seg)] = "}"

\* _SimplifyPath on a template: each segment of the form <...> becomes
\* {name} and every other segment is left as it is.
SimplifiedAsExpected ==
  "_SimplifyPath" \in tplDone =>
    LET segs == Split(tpl, "/")
        out == Split(tplSimple, "/")
    IN /\ Len(out) = Len(segs)
       /\ \A i \in 1..Len(segs) : out[i] = ExpectedSegment(segs[i])

\* C8 as stated: for every URL template, _SimplifyPath replaces each
\* "/"-separated segment of the form <...> by {name}, name being the text
\* after the last ":" inside the brackets, and leaves every other segment as
\* it is; and _GetPathArgsFromPath returns exactly the names that are in
\* braces in the simplified path, in the same order from left to right.
Claim_C8 ==
  /\ SimplifiedAsExpected
  /\ tplDone = {"_SimplifyPath", "_GetPathArgsFromPath"} =>
       tplArgs = NamesInBraces(Split(tplSimple, "/"))

\* C8, amended: for every URL template, _SimplifyPath replaces each segment
\* of the form <...> by {name} and leaves every other segment as it is, and
\* _GetPathArgsFromPath returns, from left to right, the names in braces of
\* the simplified segments that replace a <...> segment.  These are exactly
\* the names in braces of the simplified path when no other segment of the
\* template is itself written in braces.
Thm_C8 ==
  /\ SimplifiedAsExpected
  /\ tplDone = {"_SimplifyPath", "_GetPathArgsFromPath"} =>
       LET segs == Split(tpl, "/")
           out == Split(tplSimple, "/")
       IN /\ tplArgs = NamesInBraces(SimplifiedParams(segs, out))
          /\ Len(tplArgs) = Cardinality({i \in 1..Len(segs) : BracketForm(segs[i])})
          /\ (\A i \in 1..Len(segs) : ~LiteralBraces(segs[i])) =>
               tplArgs = NamesInBraces(out)

\* Both functions have been applied to /foo/<int:id>/bar.
Witness_C8 ==
  /\ tplDone = {"_SimplifyPath", "_GetPathArgsFromPath"}
  /\ Str(tpl) = "/foo/<int:id>/bar"
  /\ Str(tplSimple) = "/foo/{id}/bar"
  /\ tplArgs = <<(<<"i", "d">>)>>

-----------------------------------------------------------------------------
(* Responses of an operation.                                              *)

ResponsesAsClaimed(doc, mb) ==
  LET result_type == router[mb.m].result_type
      responses == DictGet(OperationOf(doc, BindingAt(mb)), "responses")
      ok == DictGet(responses, "200")
      content == DictGet(ok, "content")
  IN /\ DictKeySeq(responses) = <<"200", "default">>
     /\ DictKeySeq(DictGet(responses, "default")) = <<"description">>
     /\ result_type.kind = "none" => ~DictHas(ok, "content")
     /\ result_type.kind # "none" =>
          /\ DictHas(ok, "content")
          /\ Len(content.obj) = 1
          /\ result_type = [kind |-> "str", s |-> "BinaryStream"] =>
               /\ DictKeySeq(content) = <<"application/octet-stream">>
               /\ DictGet(DictGet(content, "application/octet-stream"), "schema")
                    = JO(<<KV("type", JS("string")), KV("format", JS("binary"))>>)
          /\ result_type # [kind |-> "str", s |-> "BinaryStream"] =>
               DictKeySeq(content) = <<"application/json">>

\* C9: the "200" response of every operation has a content map with exactly
\* one media type when the method declares a result type:
\* "application/octet-stream", with the schema of the BinaryStream
\* primitive, if and only if the result type is the marker "BinaryStream",
\* and "application/json" otherwise; it has no content when no result type
\* is declared; and a "default" response that has only a description is
\* always there.
Thm_C9 ==
  Complete(open_api_obj) =>
    \A mb \in RouterBindings : ResponsesAsClaimed(open_api_obj, mb)

\* A document is built for a method that returns the raw stream marker and a
\* method that declares no result type.
Witness_C9 ==
  /\ router = <<GetBlob, PutNodes>>
  /\ Complete(open_api_obj)
  /\ DictHas(DictGet(Response200Of(OperationOf(open_api_obj,
                                               GetBlob.http_methods[1])),
                     "content"), "application/octet-stream")
  /\ ~DictHas(Response200Of(OperationOf(open_api_obj, PutNodes.http_methods[1])),
              "content")

-----------------------------------------------------------------------------
(* Expansion of the composite types by one run of _ExtractSchemas.         *)

\* The message and enum types of the fields of a message.
FieldTypesOf(n) ==
  {FieldDescriptorName(pool[n].fields[i]) : i \in 1..Len(pool[n].fields)} \ {""}

\* The types a set of types reaches through message and enum typed fields.
RECURSIVE Closure(_)
Closure(names) ==
  LET more == UNION {FieldTypesOf(n) : n \in names \cap MessageNames}
  IN IF more \subseteq names THEN names ELSE Closure(names \cup more)

\* The composite types the methods of the registry declare.
DeclaredNames ==
  {CompositeResultName(router[m].args_type) : m \in 1..Len(router)}
    \cup {CompositeResultName(router[m].result_type) : m \in 1..Len(router)}

\* The loop of _ExtractSchemas has run to its end.
Extracted ==
  \/ \E c \in Callers : pc[c] = "SetComponents"
  \/ IsDict(open_api_obj) /\ DictHas(open_api_obj, "components")

ExpandedOnce ==
  /\ \A n \in DOMAIN pool :
       /\ expanded[n] <= 1
       /\ written[n] <= expanded[n]
       /\ IsDict(schema_objs) => (DictHas(schema_objs, n) <=> written[n] = 1)
  /\ Extracted =>
       \A n \in Closure(DeclaredNames \ {""}) :
         expanded[n] = 1 /\ written[n] = 1

\* A step keeps every entry the catalog holds.
EntriesKept ==
  IsDict(schema_objs) =>
    \A n \in DictKeys(schema_objs) :
      /\ DictHas(schema_objs', n)
      /\ DictGet(schema_objs', n) = DictGet(schema_objs, n)

\* C10: in one run of _ExtractSchemas every composite type is expanded (the
\* body of _ExtractMessageSchema or _ExtractEnumSchema run for it) at most
\* once, and exactly once by the end of the run if the declared types reach
\* it, however many methods and fields refer to it and whether or not it is
\* on a cycle; it is written into schema_objs at most once, and an entry of
\* the catalog is never overwritten.
Thm_C10 == [](ExpandedOnce) /\ [][EntriesKept]_vars

\* The run has ended on a registry in which grr.Args is declared by two
\* methods and grr.Node is a result type, a field type and on a cycle.
Witness_C10 ==
  /\ router = <<ListNodes, PutNodes>>
  /\ pc[1] = "SetComponents"
  /\ \A n \in {"grr.Args", "grr.Node", "grr.Kind"} :
       expanded[n] = 1 /\ written[n] = 1

-----------------------------------------------------------------------------
(* Fields whose type is being expanded: back-edges of the type graph.      *)

\* The message of a back-edge has been stored in the catalog.
Stored(e) == IsDict(schema_objs) /\ DictHas(schema_objs, e.message)

\* schema_objs[message]["properties"]
StoredProperties(message) == DictGet(DictGet(schema_objs, message), "properties")

\* The field descriptor of a back-edge.
FieldOf(e) ==
  pool[e.message].fields[CHOOSE i \in 1..Len(pool[e.message].fields) :
                           pool[e.message].fields[i].name = e.field]

\* C11 (as stated): when the type of a field is in visiting while
\* _ExtractMessageSchema handles the field, the field is left out: its name
\* is not among the "properties" of the schema stored for the message.
Claim_C11 ==
  \A e \in back_edges :
    Stored(e) => ~DictHas(StoredProperties(e.message), e.field)

\* C11 (amended): when the type of a field is in visiting while
\* _ExtractMessageSchema handles the field, the nested _ExtractSchema call
\* returns without expanding the type and without raising, and the field is
\* kept: the schema stored for the message has the field name among its
\* "properties", with a {"$ref": "#/components/schemas/<type>"} object (the
\* items of an array for a repeated field) as its value.
Thm_C11 ==
  /\ \A e \in back_edges :
       /\ expanded[FieldDescriptorName(FieldOf(e))] = 1
       /\ Stored(e) =>
            /\ DictHas(StoredProperties(e.message), e.field)
            /\ DictGet(StoredProperties(e.message), e.field) = RefUse(FieldOf(e))
  /\ \A i \in 1..Len(returned) :
       ~returned[i].ok => (back_edges = {} \/ ~WellTyped(router))

\* grr.Node has been stored after its field "next", of type grr.Node, was
\* met while grr.Node was being expanded.
Witness_C11 ==
  /\ [message |-> "grr.Node", field |-> "next"] \in back_edges
  /\ IsDict(schema_objs)
  /\ DictHas(schema_objs, "grr.Node")
  /\ DictHas(StoredProperties("grr.Node"), "next")

-----------------------------------------------------------------------------
(* References of the built document and the entries they name.             *)

\* The values of the "$ref" keys anywhere inside a JSON value.
RECURSIVE RefsIn(_)
RefsIn(v) ==
  IF "obj" \in DOMAIN v
    THEN UNION {IF v.obj[i].k = "$ref" THEN {v.obj[i].v.str}
                ELSE RefsIn(v.obj[i].v) : i \in 1..Len(v.obj)}
  ELSE IF "arr" \in DOMAIN v
    THEN UNION {RefsIn(v.arr[i]) : i \in 1..Len(v.arr)}
  ELSE {}

\* The references that name an entry of components.schemas of a document.
Resolvable(doc) ==
  {"#/components/schemas/" \o n : n \in DictKeys(Schemas(doc))}

\* C12: in a document that a build has completed, every "$ref" (in the
\* component schemas, the parameters, the request bodies and the responses,
\* those emitted for back-edges of cyclic types included) is
\* "#/components/schemas/<name>" for a key <name> of components.schemas.
Thm_C12 ==
  /\ Complete(open_api_obj) =>
       RefsIn(open_api_obj) \subseteq Resolvable(open_api_obj)
  /\ \A i \in 1..Len(returned) :
       (returned[i].ok /\ Complete(returned[i].doc)) =>
         RefsIn(returned[i].doc) \subseteq Resolvable(returned[i].doc)

\* A complete document was returned whose schema of grr.Node refers to
\* grr.Node itself through a back-edge, and whose operations refer to
\* grr.Node from a parameter, a request body and a response.
Witness_C12 ==
  /\ router = <<ListNodes, PutNodes>>
  /\ Len(returned) >= 1
  /\ returned[1].ok
  /\ Complete(returned[1].doc)
  /\ [message |-> "grr.Node", field |-> "next"] \in back_edges
  /\ "#/components/schemas/grr.Node"
       \in RefsIn(DictGet(Schemas(returned[1].doc), "grr.Node"))
  /\ "#/components/schemas/grr.Node" \in RefsIn(DictGet(returned[1].doc, "paths"))
  /\ RefsIn(returned[1].doc) =
       {"#/components/schemas/grr.Node", "#/components/schemas/grr.Kind"}

-----------------------------------------------------------------------------
(* Content of the catalog, whatever the order the roots are visited in.    *)

\* The fragment of a composite type as its descriptor alone determines it:
\* for an enum the schema of its values; for a message an object whose
\* properties are, field by field, the schema of the primitive type of the
\* field or a reference to its message or enum type. Neither the registry
\* nor the state of the traversal occurs in it.
FragmentOf(n) ==
  IF pool[n].kind = "enum" THEN EnumSchema(pool[n].values)
  ELSE LET fields == pool[n].fields
           primitives == _AddPrimitiveTypesSchemas(EmptyDict)
           ValueOf(field_d) ==
             IF IsCompositeField(field_d) THEN RefUse(field_d)
             ELSE IF field_d.label = LABEL_REPEATED
               THEN ArrayOf(DictGet(primitives, _GetTypeName(field_d)))
             ELSE DictGet(primitives, _GetTypeName(field_d))
       IN JO(<<KV("type", JS("object")),
               KV("properties",
                  JO([i \in 1..Len(fields) |->
                        KV(fields[i].name, ValueOf(fields[i]))]))>>)

\* A name -> fragment mapping holds exactly the composite types that the
\* set of declared types reaches, each with the fragment of its descriptor
\* (and the primitive entries, when the mapping is the catalog itself).
SameContent(d, others) ==
  /\ DictKeys(d) = others \cup Closure(DeclaredNames \ {""})
  /\ \A n \in DictKeys(d) : Entries(d, n) = 1
  /\ \A n \in Closure(DeclaredNames \ {""}) : DictGet(d, n) = FragmentOf(n)

\* C13: when the loop of _ExtractSchemas has ended, the catalog, read as a
\* mapping from names to fragments, is determined by the set of types the
\* methods declare and by the descriptors: its keys are the 16 primitive
\* names and the types the declared types reach, and the fragment of each is
\* the one its descriptor determines; components.schemas holds the same
\* composite entries. The order of the methods in the registry, and hence
\* the order in which the roots of a cyclic type graph are visited, does not
\* occur in that content, so two permutations of a registry end with equal
\* mappings.
Thm_C13 ==
  Extracted =>
    /\ SameContent(schema_objs, Primitive16)
    /\ (IsDict(open_api_obj) /\ DictHas(open_api_obj, "components")) =>
         SameContent(Schemas(open_api_obj), {})

\* The messages A and B lie on a cycle and both are roots; B was visited
\* first, so the edge from A back to B is the back-edge and A was stored
\* before B, where the registry in the other order meets the back-edge from
\* B to A and stores B before A; the catalog has the content the
\* descriptors determine.
Witness_C13 ==
  /\ router = GraphOther \o GraphRouter
  /\ pool["A"].fields = GraphFields(<<"B">>)
  /\ pool["B"].fields = GraphFields(<<"A">>)
  /\ \E c \in Callers : pc[c] = "SetComponents"
  /\ back_edges = {[message |-> "A", field |-> "f1"]}
  /\ SameContent(schema_objs, Primitive16)
  /\ DictGet(schema_objs, "A") # DictGet(schema_objs, "B")

=============================================================================
